---- MODULE Spec2Model ----
(***************************************************************************)
(* Device alias assignment of the QEMU driver (src/qemu/qemu_alias.c).     *)
(*                                                                         *)
(* A domain definition is a record of device lists; every device carries   *)
(* an alias that is either NULL or a string.  One action models one loop   *)
(* body of qemuAssignDeviceAliases, and the exported per-class assigners   *)
(* can also be called directly, with any index argument (hot-plug).        *)
(***************************************************************************)
EXTENDS Integers, Sequences, FiniteSets, TLC

VARIABLES
    def,        \* virDomainDef: the device lists and the machine type
    qemuCaps,   \* virQEMUCaps: the capability bits the assigners query
    pc,         \* [loop, i]: "idle", the loop body that runs next, "end", "done", "called"
    ret,        \* return value of the last finished qemuAssignDeviceAliases call
    rerun,      \* qemuAssignDeviceAliases had already run when the running/last call started
    def0,       \* history: the definition when the running/last call started
    pre,        \* history: the definition before the last per-device assigner call
    last        \* history: the last per-device assigner call: the device as passed
                \* in (dev), its list and position (i = 0: not in a list), the index
                \* argument (-2: the assigner takes none), what came back (ret, alias)

aliasVars == <<def, qemuCaps, pc, ret, rerun, def0, pre, last>>

VARIABLES
    probe       \* one call of qemuDomainDeviceAliasIndex: the alias of the info
                \* passed in, the prefix, the position (pc) and the value returned

indexVars == <<probe>>

VARIABLES
    xmlDoc,     \* the document given to virDomainBackupDefParseString
    flags,      \* VIR_DOMAIN_BACKUP_PARSE_INTERNAL is among the flags of the parse
    dom,        \* virDomainDef->disks of the domain the job is for
    backup,     \* virDomainBackupDef *: NULL, or the job as it is now
    bpc,        \* what has been called last: "start", "parsed", "aligned", ...
    alignRet,   \* return value of the last virDomainBackupAlignDisks
    buf,        \* the document virDomainBackupDefFormat wrote
    preAlign,   \* history: the job before the last virDomainBackupAlignDisks
    first,      \* history: the job that was formatted
    aligned     \* history: the job that was formatted had been aligned

backupVars == <<xmlDoc, flags, dom, backup, bpc, alignRet, buf, preAlign, first, aligned>>

VARIABLES
    files,      \* what the target path and "<path>.new" (tmp) name on disk
    stream,     \* FILE *f: whether it is open, on which file, the bytes pending in it
    wpc,        \* the call of hostsfileWrite/addnhostsWrite that comes next
    istmp,      \* bool istmp
    wrc,        \* int rc
    nwritten,   \* size_t i: the entries the loop has written
    wjob,       \* which of the two functions runs, and its hosts argument
    oldFile,    \* history: what the target path named when the call started
    reading,    \* what a concurrent reader of the target path has read last
    calls       \* history: the library calls the writer has made, each with its outcome

dnsmasqVars == <<files, stream, wpc, istmp, wrc, nwritten, wjob, oldFile, reading, calls>>

VARIABLES
    ctxFiles,   \* what ctx->hostsfile->path and ctx->addnhostsfile->path name on disk
    dpc,        \* the statement of dnsmasqDelete that comes next
    dret,       \* int ret of dnsmasqDelete
    ctxFiles0,  \* history: the two files when dnsmasqDelete was called
    unlinks     \* history: what genericFileDelete did for either file

deleteVars == <<ctxFiles, dpc, dret, ctxFiles0, unlinks>>

VARIABLES
    dcaps,        \* dnsmasqCaps *: NULL, or the object with its fields
    binary,       \* the dnsmasq binary on disk: mtime, mode, what running it gives
    cpc,          \* "idle", or "returned" right after dnsmasqCapsRefresh
    capsRet,      \* return value of the last dnsmasqCapsRefresh
    lastRefresh,  \* history: what the last dnsmasqCapsRefresh found and did
    okMtime       \* history: st_mtime of the binary at the last successful probe

capsVars == <<dcaps, binary, cpc, capsRet, lastRefresh, okMtime>>

VARIABLES
    xnode,     \* xmlNodePtr node: NULL, or the node with its list of children
    xchild,    \* the local child: 0 for NULL, or the child it points to
    xnext,     \* the local next: 0 for NULL, or the child it points to
    xpc,       \* position in virXMLNodeSanitizeNamespaces
    xorig      \* history: node as it was passed in

xmlVars == <<xnode, xchild, xnext, xpc, xorig>>

utilVars == <<deleteVars, capsVars, xmlVars>>

vars == <<def, qemuCaps, pc, ret, rerun, def0, pre, last, indexVars, backupVars, dnsmasqVars,
          utilVars>>

-----------------------------------------------------------------------------
(* Bounds of the model *)

MaxDevs == 2        \* devices in play: in the domain, plus the one being hot-plugged
MaxIdx == 1         \* largest controller index / drive address component / DIMM slot

(* Program constants *)

INT_MAX == 2147483647

INT_MIN == (0 - INT_MAX) - 1

NULL == "(null)"    \* the NULL pointer of a char *; never a string the model builds

\* a pointer to an object: NullPtr, or Ptr(obj) with Deref(Ptr(obj)) = obj
NullPtr == <<>>

Ptr(obj) == <<obj>>

Deref(p) == p[1]

-----------------------------------------------------------------------------
(* Strings: printf("%d"), STRPREFIX and virStrToLong_i *)

Digits == "0123456789"

Digit(n) == SubSeq(Digits, n + 1, n + 1)

IsDigit(c) == \E d \in 0..9 : Digit(d) = c

DigitVal(c) == CHOOSE d \in 0..9 : Digit(d) = c

RECURSIVE FmtNat(_)
FmtNat(n) == IF n < 10 THEN Digit(n) ELSE FmtNat(n \div 10) \o Digit(n % 10)

\* g_strdup_printf("%d", n)
FmtInt(n) == IF n < 0 THEN "-" \o FmtNat(0 - n) ELSE FmtNat(n)

STRPREFIX(a, b) == Len(a) >= Len(b) /\ SubSeq(a, 1, Len(b)) = b

StrSkip(s, n) == IF n >= Len(s) THEN "" ELSE SubSeq(s, n + 1, Len(s))

\* the first character of s, "" at the end of the string
First(s) == IF Len(s) = 0 THEN "" ELSE SubSeq(s, 1, 1)

RECURSIVE AllDigits(_)
AllDigits(s) == Len(s) = 0 \/ (IsDigit(First(s)) /\ AllDigits(StrSkip(s, 1)))

\* the digits read as a negative number, so that INT_MIN is reached without
\* leaving the range of an int; 1 when the number does not fit
RECURSIVE DigitsNeg(_, _)
DigitsNeg(s, acc) ==
    IF Len(s) = 0 THEN acc
    ELSE LET dg == DigitVal(First(s))
         IN  IF acc < (INT_MIN + dg) \div 10 + (IF (INT_MIN + dg) % 10 = 0 THEN 0 ELSE 1)
             THEN 1
             ELSE DigitsNeg(StrSkip(s, 1), acc * 10 - dg)

\* s without its sign c1
Unsigned(s, c1) == IF c1 = "-" \/ c1 = "+" THEN StrSkip(s, 1) ELSE s

\* the digits of body as a negative number, 1 when body is no number that fits
NegValue(body) ==
    IF Len(body) = 0 \/ ~AllDigits(body) THEN 1 ELSE DigitsNeg(body, 0)

\* the return value and the result for sign c1 and the negated value negval
Signed(c1, negval) ==
    IF negval = 1 \/ (c1 # "-" /\ negval = INT_MIN)
    THEN [rc |-> -1, result |-> 0]
    ELSE [rc |-> 0, result |-> IF c1 = "-" THEN negval ELSE 0 - negval]

\* strtol skips the white space in front of the number
IsSpace(c) == c = " " \/ c = "\t"

RECURSIVE SkipSpaces(_)
SkipSpaces(s) == IF IsSpace(First(s)) THEN SkipSpaces(StrSkip(s, 1)) ELSE s

\* s, without white space in front, as an optionally signed decimal number
StrToLong(s) == Signed(First(s), NegValue(Unsigned(s, First(s))))

\* virStrToLong_i(s, NULL, 10, &result): after optional white space the whole
\* of s must be an optionally signed decimal number that fits an int.
virStrToLong_i(s) == StrToLong(SkipSpaces(s))

-----------------------------------------------------------------------------
(* qemuDomainDeviceAliasIndex *)

\* if (virStrToLong_i(...) < 0) return -1; return idx;
IdxUnlessFailed(r) == IF r.rc < 0 THEN -1 ELSE r.result

qemuDomainDeviceAliasIndex_AnyPrefix(info, prefix) ==
    IF info.alias = NULL THEN -1
    ELSE IdxUnlessFailed(virStrToLong_i(StrSkip(info.alias, Len(prefix))))

qemuDomainDeviceAliasIndex(info, prefix) ==
    IF info.alias = NULL THEN -1
    ELSE IF ~STRPREFIX(info.alias, prefix) THEN -1
    ELSE IdxUnlessFailed(virStrToLong_i(StrSkip(info.alias, Len(prefix))))

-----------------------------------------------------------------------------
(* The scanning loops.  Each assigner of the source carries its own copy   *)
(* of the loop; the copies differ in whether a failed scan is skipped with *)
(* "continue" and in the starting value of idx.                            *)

\* a scan that fills the gaps: the smallest index from idx on that no alias holds
ScanSkipping_FillGaps(infos, prefix, idx) ==
    LET seen == {qemuDomainDeviceAliasIndex(infos[j], prefix) : j \in 1..Len(infos)}
    IN  CHOOSE k \in idx..(idx + Len(infos)) :
            k \notin seen /\ \A m \in idx..(k - 1) : m \in seen

\* if (thisidx >= idx) idx = thisidx + 1;
Raise(thisidx, idx) == IF thisidx >= idx THEN thisidx + 1 ELSE idx

\* if (thisidx < 0) continue; if (thisidx >= idx) idx = thisidx + 1;
RaiseSkipping(thisidx, idx) == IF thisidx < 0 THEN idx ELSE Raise(thisidx, idx)

\* for (...) { if ((thisidx = Index(info, prefix)) < 0) continue;
\*             if (thisidx >= idx) idx = thisidx + 1; }
RECURSIVE ScanSkipping(_, _, _)
ScanSkipping(infos, prefix, idx) ==
    IF infos = <<>> THEN idx
    ELSE ScanSkipping(Tail(infos), prefix,
                      RaiseSkipping(qemuDomainDeviceAliasIndex(Head(infos), prefix), idx))

\* for (...) { if ((thisidx = Index(info, prefix)) >= idx) idx = thisidx + 1; }
RECURSIVE ScanPlain(_, _, _)
ScanPlain(infos, prefix, idx) ==
    IF infos = <<>> THEN idx
    ELSE ScanPlain(Tail(infos), prefix,
                   Raise(qemuDomainDeviceAliasIndex(Head(infos), prefix), idx))

\* the body of the loop of qemuGetNextChrDevIndex, thisidx being the index
\* the alias has with prefix: with a second prefix and thisidx < 0 the index
\* the alias has with prefix2 is tried, and the device skipped if that is < 0
RaiseChr(info, thisidx, prefix2, idx) ==
    IF thisidx < 0 /\ prefix2 # NULL
    THEN RaiseSkipping(qemuDomainDeviceAliasIndex(info, prefix2), idx)
    ELSE Raise(thisidx, idx)

\* a scan of the character devices that never tries the second prefix
RECURSIVE ScanChr_OnePrefix(_, _, _, _)
ScanChr_OnePrefix(infos, prefix, prefix2, idx) ==
    IF infos = <<>> THEN idx
    ELSE ScanChr_OnePrefix(Tail(infos), prefix, prefix2,
                           Raise(qemuDomainDeviceAliasIndex(Head(infos), prefix), idx))

\* the loop of qemuGetNextChrDevIndex: prefix2 is NULL or a second prefix
RECURSIVE ScanChr(_, _, _, _)
ScanChr(infos, prefix, prefix2, idx) ==
    IF infos = <<>> THEN idx
    ELSE ScanChr(Tail(infos), prefix, prefix2,
                 RaiseChr(Head(infos), qemuDomainDeviceAliasIndex(Head(infos), prefix),
                          prefix2, idx))

-----------------------------------------------------------------------------
(* Collaborators that the assigners call *)

\* virDomainChrGetDomainPtrs: the list of the domain that holds devices of this type
virDomainChrGetDomainPtrs(d, deviceType) ==
    CASE deviceType = "parallel" -> d.parallels
      [] deviceType = "serial" -> d.serials
      [] deviceType = "console" -> d.consoles
      [] deviceType = "channel" -> d.channels
      [] OTHER -> <<>>

\* virQEMUCapsHasPCIMultiBus
virQEMUCapsHasPCIMultiBus(caps, d) == caps.multibus

\* virQEMUCapsGet(qemuCaps, QEMU_CAPS_BLOCKDEV)
virQEMUCapsGetBlockdev(caps) == caps.blockdev

\* qemuDomainHasBuiltinIDE: i440fx-like machine types
qemuDomainHasBuiltinIDE(d) == d.machine = "pc"

\* qemuDomainIsQ35
qemuDomainIsQ35(d) == d.machine = "q35"

\* virDomainNetResolveActualType
virDomainNetResolveActualType(net) == net.type

\* qemuDomainFindSCSIControllerModel: the model of the SCSI controller whose
\* index is the drive address's controller, -1 when the domain has none
qemuDomainFindSCSIControllerModel(d, info) ==
    LET found == {i \in 1..Len(d.controllers) :
                     /\ d.controllers[i].type = "scsi"
                     /\ d.controllers[i].idx = info.drive.controller}
    IN  IF found = {} THEN "-1"
        ELSE d.controllers[CHOOSE i \in found : \A j \in found : i <= j].model

Letters == "abcdefghijklmnopqrstuvwxyz"

IsLetter(c) == \E k \in 1..26 : SubSeq(Letters, k, k) = c

LetterVal(c) == (CHOOSE k \in 1..26 : SubSeq(Letters, k, k) = c) - 1

RECURSIVE LettersVal(_, _)
LettersVal(s, acc) ==
    IF Len(s) = 0 THEN acc - 1
    ELSE LettersVal(StrSkip(s, 1), acc * 26 + LetterVal(First(s)) + 1)

DiskNamePrefixes == <<"fd", "hd", "vd", "sd", "xvd", "ubd">>

RECURSIVE SkipLetters(_)
SkipLetters(s) == IF IsLetter(First(s)) THEN SkipLetters(StrSkip(s, 1)) ELSE s

\* virDiskNameToIndex: "vda" -> 0, "vdb" -> 1, ..., "vdaa" -> 26, a partition
\* number after the letters is passed over; -1 when the name has no known
\* prefix, no letter after it or does not end after the letters and digits
virDiskNameToIndex(name) ==
    LET hits == {k \in 1..Len(DiskNamePrefixes) : STRPREFIX(name, DiskNamePrefixes[k])}
    IN  IF hits = {} THEN -1
        ELSE LET k == CHOOSE h \in hits : \A j \in hits : h <= j
                 rest == StrSkip(name, Len(DiskNamePrefixes[k]))
                 tail == SkipLetters(rest)
                 letters == SubSeq(rest, 1, Len(rest) - Len(tail))
             IN  IF ~AllDigits(tail) THEN -1
                 ELSE IF Len(letters) = 0 THEN -1
                 ELSE LettersVal(letters, 0)

\* the info a host device points to: its own, or the info of the <interface
\* type='hostdev'> it belongs to
HostdevInfo(d, hostdev) ==
    IF hostdev.net = 0 THEN hostdev ELSE d.nets[hostdev.net]

HostdevInfos(d) == [i \in 1..Len(d.hostdevs) |-> HostdevInfo(d, d.hostdevs[i])]

-----------------------------------------------------------------------------
(* The per-class assigners.  Each takes the domain, the device and the     *)
(* caller's arguments and yields the return value and the device's alias   *)
(* afterwards (the disk assigner also the qomName).                        *)

\* a scan for the next console that does not look for serial<k>
qemuGetNextChrDevIndex_NoSecond(d, chr, prefix) ==
    ScanChr(virDomainChrGetDomainPtrs(d, chr.deviceType), prefix, NULL, 0)

qemuGetNextChrDevIndex(d, chr, prefix) ==
    LET prefix2 == IF chr.deviceType = "console" THEN "serial" ELSE NULL
        arrPtr == virDomainChrGetDomainPtrs(d, chr.deviceType)
    IN  ScanChr(arrPtr, prefix, prefix2, 0)

qemuAssignDeviceChrAlias(d, chr, idx) ==
    IF chr.alias # NULL THEN [ret |-> 0, alias |-> chr.alias]
    ELSE IF chr.deviceType \notin {"parallel", "serial", "console", "channel"}
    THEN [ret |-> -1, alias |-> chr.alias]
    ELSE LET prefix == chr.deviceType
             next == IF idx = -1 THEN qemuGetNextChrDevIndex(d, chr, prefix) ELSE idx
         IN  IF idx = -1 /\ next < 0 THEN [ret |-> -1, alias |-> chr.alias]
             ELSE [ret |-> 0, alias |-> prefix \o FmtInt(next)]

\* virDomainControllerTypeToString
virDomainControllerTypeToString(type) == type

\* a controller assigner that names every PCI controller by its index
qemuAssignDeviceControllerAlias_Indexed(d, caps, controller) ==
    IF controller.alias # NULL THEN [ret |-> 0, alias |-> controller.alias]
    ELSE IF controller.type = "pci" /\ controller.model = "pcie-root"
    THEN [ret |-> 0, alias |-> "pcie." \o FmtInt(controller.idx)]
    ELSE IF controller.type = "pci"
    THEN [ret |-> 0, alias |-> "pci." \o FmtInt(controller.idx)]
    ELSE [ret |-> 0,
          alias |-> virDomainControllerTypeToString(controller.type)
                        \o FmtInt(controller.idx)]

\* a controller assigner that gives the fixed names at every index
qemuAssignDeviceControllerAlias_AnyIndex(d, caps, controller) ==
    IF controller.alias # NULL THEN [ret |-> 0, alias |-> controller.alias]
    ELSE IF controller.type = "pci"
    THEN IF ~virQEMUCapsHasPCIMultiBus(caps, d) THEN [ret |-> 0, alias |-> "pci"]
         ELSE IF controller.model = "pcie-root"
         THEN [ret |-> 0, alias |-> "pcie." \o FmtInt(controller.idx)]
         ELSE [ret |-> 0, alias |-> "pci." \o FmtInt(controller.idx)]
    ELSE IF controller.type = "ide" /\ qemuDomainHasBuiltinIDE(d)
    THEN [ret |-> 0, alias |-> "ide"]
    ELSE IF controller.type = "sata" /\ qemuDomainIsQ35(d)
    THEN [ret |-> 0, alias |-> "ide"]
    ELSE IF controller.type = "usb"
    THEN [ret |-> 0, alias |-> "usb"]
    ELSE IF controller.type = "scsi" /\ controller.model = "ncr53c90"
    THEN [ret |-> 0, alias |-> "scsi"]
    ELSE [ret |-> 0,
          alias |-> virDomainControllerTypeToString(controller.type)
                        \o FmtInt(controller.idx)]

qemuAssignDeviceControllerAlias(d, caps, controller) ==
    LET prefix == virDomainControllerTypeToString(controller.type)
        idx == FmtInt(controller.idx)
    IN  IF controller.alias # NULL THEN [ret |-> 0, alias |-> controller.alias]
        ELSE IF controller.type = "pci"
        THEN IF ~virQEMUCapsHasPCIMultiBus(caps, d) THEN [ret |-> 0, alias |-> "pci"]
             ELSE IF controller.model = "pcie-root"
             THEN [ret |-> 0, alias |-> "pcie." \o idx]
             ELSE [ret |-> 0, alias |-> "pci." \o idx]
        ELSE IF controller.type = "ide" /\ qemuDomainHasBuiltinIDE(d) /\ controller.idx = 0
        THEN [ret |-> 0, alias |-> "ide"]
        ELSE IF controller.type = "sata" /\ qemuDomainIsQ35(d) /\ controller.idx = 0
        THEN [ret |-> 0, alias |-> "ide"]
        ELSE IF controller.type = "usb" /\ controller.idx = 0
        THEN [ret |-> 0, alias |-> "usb"]
        ELSE IF controller.type = "scsi" /\ controller.model = "ncr53c90"
                /\ controller.idx = 0
        THEN [ret |-> 0, alias |-> "scsi"]
        ELSE [ret |-> 0, alias |-> prefix \o idx]

\* virDomainDiskBusTypeToString
virDomainDiskBusTypeToString(bus) == bus

\* a disk assigner that leaves the target out for every SCSI controller
DiskAliasPart_NoTarget(d, disk) ==
    IF disk.alias # NULL THEN [ret |-> 0, alias |-> disk.alias]
    ELSE IF disk.type = "drive"
    THEN IF disk.bus = "scsi" /\ qemuDomainFindSCSIControllerModel(d, disk) = "-1"
         THEN [ret |-> -1, alias |-> disk.alias]
         ELSE [ret |-> 0,
               alias |-> virDomainDiskBusTypeToString(disk.bus)
                            \o FmtInt(disk.drive.controller) \o "-" \o FmtInt(disk.drive.bus)
                            \o "-" \o FmtInt(disk.drive.unit)]
    ELSE [ret |-> 0,
          alias |-> virDomainDiskBusTypeToString(disk.bus) \o "-disk"
                        \o FmtInt(virDiskNameToIndex(disk.dst))]

\* the alias part of qemuAssignDeviceDiskAlias (if (!disk->info.alias) {...})
DiskAliasPart(d, disk) ==
    LET prefix == virDomainDiskBusTypeToString(disk.bus)
        controllerModel == IF disk.bus = "scsi"
                           THEN qemuDomainFindSCSIControllerModel(d, disk)
                           ELSE "-1"
        a == disk.drive
    IN  IF disk.alias # NULL THEN [ret |-> 0, alias |-> disk.alias]
        ELSE IF disk.type = "drive"
        THEN IF disk.bus = "scsi" /\ controllerModel = "-1"
             THEN [ret |-> -1, alias |-> disk.alias]
             ELSE IF disk.bus # "scsi" \/ controllerModel = "lsilogic"
             THEN [ret |-> 0,
                   alias |-> prefix \o FmtInt(a.controller) \o "-" \o FmtInt(a.bus)
                                    \o "-" \o FmtInt(a.unit)]
             ELSE [ret |-> 0,
                   alias |-> prefix \o FmtInt(a.controller) \o "-" \o FmtInt(a.bus)
                                    \o "-" \o FmtInt(a.target) \o "-" \o FmtInt(a.unit)]
        ELSE LET idx == virDiskNameToIndex(disk.dst)
             IN  [ret |-> 0, alias |-> prefix \o "-disk" \o FmtInt(idx)]

\* a qomName that is derived again on every call
DiskQomNamePart_Recompute(disk, caps, alias) ==
    IF virQEMUCapsGetBlockdev(caps)
    THEN CASE disk.bus \in {"fdc", "ide", "sata", "scsi"} -> alias
           [] disk.bus = "virtio" -> "/machine/peripheral/" \o alias \o "/virtio-backend"
           [] disk.bus = "usb" ->
                "/machine/peripheral/" \o alias \o "/" \o alias \o ".0/legacy[0]"
           [] OTHER -> disk.qomName
    ELSE disk.qomName

\* the qomName part of qemuAssignDeviceDiskAlias
DiskQomNamePart(disk, caps, alias) ==
    IF disk.qomName = NULL /\ virQEMUCapsGetBlockdev(caps)
    THEN CASE disk.bus \in {"fdc", "ide", "sata", "scsi"} -> alias
           [] disk.bus = "virtio" -> "/machine/peripheral/" \o alias \o "/virtio-backend"
           [] disk.bus = "usb" ->
                "/machine/peripheral/" \o alias \o "/" \o alias \o ".0/legacy[0]"
           [] OTHER -> disk.qomName
    ELSE disk.qomName

qemuAssignDeviceDiskAlias(d, disk, caps) ==
    LET r == DiskAliasPart(d, disk)
    IN  IF r.ret < 0 THEN [ret |-> -1, alias |-> disk.alias, qomName |-> disk.qomName]
        ELSE [ret |-> 0, alias |-> r.alias,
              qomName |-> DiskQomNamePart(disk, caps, r.alias)]

\* a host device assigner that forgets the hostdevN aliases of the interfaces
qemuAssignDeviceHostdevAlias_NoNets(d, alias, idx) ==
    IF alias # NULL THEN [ret |-> 0, alias |-> alias]
    ELSE LET idx1 == IF idx = -1 THEN ScanSkipping(HostdevInfos(d), "hostdev", 0) ELSE idx
         IN  [ret |-> 0, alias |-> "hostdev" \o FmtInt(idx1)]

\* alias is *alias, the string the caller's pointer refers to
qemuAssignDeviceHostdevAlias(d, alias, idx) ==
    IF alias # NULL THEN [ret |-> 0, alias |-> alias]
    ELSE LET idx1 == IF idx = -1
                     THEN ScanSkipping(d.nets, "hostdev",
                                       ScanSkipping(HostdevInfos(d), "hostdev", 0))
                     ELSE idx
         IN  [ret |-> 0, alias |-> "hostdev" \o FmtInt(idx1)]

qemuAssignDeviceNetAlias(d, net, idx) ==
    IF net.alias # NULL THEN [ret |-> 0, alias |-> net.alias]
    ELSE IF virDomainNetResolveActualType(net) = "hostdev"
    THEN qemuAssignDeviceHostdevAlias(d, net.alias, -1)
    ELSE LET idx1 == IF idx = -1 THEN ScanSkipping(d.nets, "net", 0) ELSE idx
         IN  [ret |-> 0, alias |-> "net" \o FmtInt(idx1)]

\* an assigner that writes the alias without looking at the one that is set
AssignOrdinalAlias_Overwrite(dev, prefix, idx) ==
    [ret |-> 0, alias |-> prefix \o FmtInt(idx)]

\* qemuAssignDeviceFSAlias, SoundAlias, VideoAlias, HubAlias, SmartcardAlias,
\* MemballoonAlias and TPMAlias: the same body with another prefix
AssignOrdinalAlias(dev, prefix, idx) ==
    IF dev.alias # NULL THEN [ret |-> 0, alias |-> dev.alias]
    ELSE [ret |-> 0, alias |-> prefix \o FmtInt(idx)]

qemuAssignDeviceFSAlias(fss, idx) == AssignOrdinalAlias(fss, "fs", idx)

qemuAssignDeviceSoundAlias(sound, idx) == AssignOrdinalAlias(sound, "sound", idx)

qemuAssignDeviceVideoAlias(video, idx) == AssignOrdinalAlias(video, "video", idx)

qemuAssignDeviceHubAlias(hub, idx) == AssignOrdinalAlias(hub, "hub", idx)

qemuAssignDeviceSmartcardAlias(smartcard, idx) ==
    AssignOrdinalAlias(smartcard, "smartcard", idx)

qemuAssignDeviceMemballoonAlias(memballoon, idx) ==
    AssignOrdinalAlias(memballoon, "balloon", idx)

qemuAssignDeviceTPMAlias(tpm, idx) == AssignOrdinalAlias(tpm, "tpm", idx)

qemuAssignDeviceRedirdevAlias(d, redirdev, idx) ==
    IF redirdev.alias # NULL THEN [ret |-> 0, alias |-> redirdev.alias]
    ELSE LET idx1 == IF idx = -1 THEN ScanSkipping(d.redirdevs, "redir", 0) ELSE idx
         IN  [ret |-> 0, alias |-> "redir" \o FmtInt(idx1)]

qemuAssignDeviceRNGAlias(d, rng) ==
    IF rng.alias # NULL THEN [ret |-> 0, alias |-> rng.alias]
    ELSE [ret |-> 0, alias |-> "rng" \o FmtInt(ScanPlain(d.rngs, "rng", 0))]

qemuDeviceMemoryGetAliasID_SlotOnly(d, mem, oldAlias, prefix) ==
    IF ~oldAlias THEN mem.slot
    ELSE ScanPlain(d.mems, prefix, 0)

qemuDeviceMemoryGetAliasID(d, mem, oldAlias, prefix) ==
    IF ~oldAlias /\ mem.model # "virtio-pmem" THEN mem.slot
    ELSE ScanPlain(d.mems, prefix, 0)

qemuAssignDeviceMemoryAlias(d, mem, oldAlias) ==
    IF mem.alias # NULL THEN [ret |-> 0, alias |-> mem.alias]
    ELSE IF mem.model \notin {"dimm", "nvdimm", "virtio-pmem"}
    THEN [ret |-> -1, alias |-> mem.alias]
    ELSE LET prefix == CASE mem.model = "dimm" -> "dimm"
                         [] mem.model = "nvdimm" -> "nvdimm"
                         [] mem.model = "virtio-pmem" -> "virtiopmem"
             idx == qemuDeviceMemoryGetAliasID(d, mem, oldAlias, prefix)
         IN  [ret |-> 0, alias |-> prefix \o FmtInt(idx)]

qemuAssignDeviceShmemAlias(d, shmem, idx) ==
    IF shmem.alias # NULL THEN [ret |-> 0, alias |-> shmem.alias]
    ELSE LET idx1 == IF idx = -1 THEN ScanSkipping(d.shmems, "shmem", 0) ELSE idx
         IN  [ret |-> 0, alias |-> "shmem" \o FmtInt(idx1)]

qemuAssignDeviceWatchdogAlias(watchdog) ==
    IF watchdog.alias # NULL THEN [ret |-> 0, alias |-> watchdog.alias]
    ELSE [ret |-> 0, alias |-> "watchdog0"]

\* idx is not reset before the loop: the scan starts from the caller's -1
qemuAssignDeviceInputAlias(d, input, idx) ==
    IF input.alias # NULL THEN [ret |-> 0, alias |-> input.alias]
    ELSE LET idx1 == IF idx = -1 THEN ScanPlain(d.inputs, "input", idx) ELSE idx
         IN  [ret |-> 0, alias |-> "input" \o FmtInt(idx1)]

qemuAssignDeviceVsockAlias(vsock) ==
    IF vsock.alias # NULL THEN [ret |-> 0, alias |-> vsock.alias]
    ELSE [ret |-> 0, alias |-> "vsock0"]

-----------------------------------------------------------------------------
(* qemuAssignDeviceAliases: the loops in their fixed order *)

LoopOrder ==
    <<"disks", "nets", "fss", "sounds", "hostdevs", "redirdevs", "videos",
      "controllers", "inputs", "parallels", "serials", "channels", "consoles",
      "hubs", "shmems", "smartcards", "watchdog", "memballoon", "rngs", "tpms",
      "mems", "vsock">>

LoopIndex(loop) == CHOOSE k \in 1..Len(LoopOrder) : LoopOrder[k] = loop

\* the loop over list k has a body to run for its device i (the optional
\* devices are lists of at most one; a balloon of model none is passed over)
Visits(d, k, i) ==
    /\ i <= Len(d[LoopOrder[k]])
    /\ LoopOrder[k] = "memballoon" => d.memballoon[i].model # "none"

\* the first loop body that runs from list k on, "end" when none is left
FirstFrom(d, k) ==
    LET ks == {j \in k..Len(LoopOrder) : Visits(d, j, 1)}
    IN  IF ks = {} THEN [loop |-> "end", i |-> 0]
        ELSE [loop |-> LoopOrder[CHOOSE j \in ks : \A m \in ks : j <= m], i |-> 1]

\* a loop that leaves after its first device
Advance_LeaveLoop(d, p) == FirstFrom(d, LoopIndex(p.loop) + 1)

\* the loop body that runs after the one at p returned 0
Advance(d, p) ==
    IF Visits(d, LoopIndex(p.loop), p.i + 1) THEN [loop |-> p.loop, i |-> p.i + 1]
    ELSE FirstFrom(d, LoopIndex(p.loop) + 1)

\* a pass that undoes on failure what it has assigned
AfterAssign_Rollback(r, idx, d1) ==
    /\ def' = IF r.ret < 0 THEN def0 ELSE d1
    /\ pre' = def
    /\ last' = [loop |-> pc.loop, i |-> pc.i, idx |-> idx, ret |-> r.ret,
                alias |-> r.alias, how |-> "pass", dev |-> def[pc.loop][pc.i]]
    /\ IF r.ret < 0
       THEN pc' = [loop |-> "done", i |-> 0] /\ ret' = -1
       ELSE pc' = Advance(def, pc) /\ ret' = ret
    /\ UNCHANGED <<qemuCaps, rerun, def0, indexVars, backupVars, dnsmasqVars, utilVars>>

\* the assigner has left the definition as d1: if (assigner(...) < 0)
\* return -1; otherwise go on with the next device
AfterAssign(r, idx, d1) ==
    /\ def' = d1
    /\ pre' = def
    /\ last' = [loop |-> pc.loop, i |-> pc.i, idx |-> idx, ret |-> r.ret,
                alias |-> r.alias, how |-> "pass", dev |-> def[pc.loop][pc.i]]
    /\ IF r.ret < 0
       THEN pc' = [loop |-> "done", i |-> 0] /\ ret' = -1
       ELSE pc' = Advance(def, pc) /\ ret' = ret
    /\ UNCHANGED <<qemuCaps, rerun, def0, indexVars, backupVars, dnsmasqVars, utilVars>>

SetAlias(d, loop, i, alias) == [d EXCEPT ![loop][i].alias = alias]

\* entry of qemuAssignDeviceAliases
Enter ==
    /\ pc.loop \in {"idle", "done"}
    /\ rerun' = (pc.loop = "done")
    /\ def0' = def
    /\ pc' = FirstFrom(def, 1)
    /\ UNCHANGED <<def, qemuCaps, ret, pre, last, indexVars, backupVars, dnsmasqVars, utilVars>>

LoopDisks ==
    /\ pc.loop = "disks"
    /\ LET r == qemuAssignDeviceDiskAlias(def, def.disks[pc.i], qemuCaps)
       IN  AfterAssign(r, -2, [def EXCEPT !.disks[pc.i].alias = r.alias,
                                          !.disks[pc.i].qomName = r.qomName])

LoopNets ==
    /\ pc.loop = "nets"
    /\ LET r == qemuAssignDeviceNetAlias(def, def.nets[pc.i], -1)
       IN  AfterAssign(r, -1, SetAlias(def, "nets", pc.i, r.alias))

LoopFSs ==
    /\ pc.loop = "fss"
    /\ LET r == qemuAssignDeviceFSAlias(def.fss[pc.i], pc.i - 1)
       IN  AfterAssign(r, pc.i - 1, SetAlias(def, "fss", pc.i, r.alias))

LoopSounds ==
    /\ pc.loop = "sounds"
    /\ LET r == qemuAssignDeviceSoundAlias(def.sounds[pc.i], pc.i - 1)
       IN  AfterAssign(r, pc.i - 1, SetAlias(def, "sounds", pc.i, r.alias))

\* the alias pointer is &def->hostdevs[i]->info->alias: the host device's own
\* info or the info of the interface it belongs to
LoopHostdevs ==
    /\ pc.loop = "hostdevs"
    /\ LET hostdev == def.hostdevs[pc.i]
           r == qemuAssignDeviceHostdevAlias(def, HostdevInfo(def, hostdev).alias, -1)
       IN  AfterAssign(r, -1, IF hostdev.net = 0
                              THEN SetAlias(def, "hostdevs", pc.i, r.alias)
                              ELSE SetAlias(def, "nets", hostdev.net, r.alias))

LoopRedirdevs ==
    /\ pc.loop = "redirdevs"
    /\ LET r == qemuAssignDeviceRedirdevAlias(def, def.redirdevs[pc.i], pc.i - 1)
       IN  AfterAssign(r, pc.i - 1, SetAlias(def, "redirdevs", pc.i, r.alias))

LoopVideos ==
    /\ pc.loop = "videos"
    /\ LET r == qemuAssignDeviceVideoAlias(def.videos[pc.i], pc.i - 1)
       IN  AfterAssign(r, pc.i - 1, SetAlias(def, "videos", pc.i, r.alias))

LoopControllers ==
    /\ pc.loop = "controllers"
    /\ LET r == qemuAssignDeviceControllerAlias(def, qemuCaps, def.controllers[pc.i])
       IN  AfterAssign(r, -2, SetAlias(def, "controllers", pc.i, r.alias))

LoopInputs ==
    /\ pc.loop = "inputs"
    /\ LET r == qemuAssignDeviceInputAlias(def, def.inputs[pc.i], pc.i - 1)
       IN  AfterAssign(r, pc.i - 1, SetAlias(def, "inputs", pc.i, r.alias))

LoopParallels ==
    /\ pc.loop = "parallels"
    /\ LET r == qemuAssignDeviceChrAlias(def, def.parallels[pc.i], pc.i - 1)
       IN  AfterAssign(r, pc.i - 1, SetAlias(def, "parallels", pc.i, r.alias))

LoopSerials ==
    /\ pc.loop = "serials"
    /\ LET r == qemuAssignDeviceChrAlias(def, def.serials[pc.i], pc.i - 1)
       IN  AfterAssign(r, pc.i - 1, SetAlias(def, "serials", pc.i, r.alias))

LoopChannels ==
    /\ pc.loop = "channels"
    /\ LET r == qemuAssignDeviceChrAlias(def, def.channels[pc.i], pc.i - 1)
       IN  AfterAssign(r, pc.i - 1, SetAlias(def, "channels", pc.i, r.alias))

LoopConsoles ==
    /\ pc.loop = "consoles"
    /\ LET r == qemuAssignDeviceChrAlias(def, def.consoles[pc.i], pc.i - 1)
       IN  AfterAssign(r, pc.i - 1, SetAlias(def, "consoles", pc.i, r.alias))

LoopHubs ==
    /\ pc.loop = "hubs"
    /\ LET r == qemuAssignDeviceHubAlias(def.hubs[pc.i], pc.i - 1)
       IN  AfterAssign(r, pc.i - 1, SetAlias(def, "hubs", pc.i, r.alias))

LoopShmems ==
    /\ pc.loop = "shmems"
    /\ LET r == qemuAssignDeviceShmemAlias(def, def.shmems[pc.i], pc.i - 1)
       IN  AfterAssign(r, pc.i - 1, SetAlias(def, "shmems", pc.i, r.alias))

LoopSmartcards ==
    /\ pc.loop = "smartcards"
    /\ LET r == qemuAssignDeviceSmartcardAlias(def.smartcards[pc.i], pc.i - 1)
       IN  AfterAssign(r, pc.i - 1, SetAlias(def, "smartcards", pc.i, r.alias))

IfWatchdog ==
    /\ pc.loop = "watchdog"
    /\ LET r == qemuAssignDeviceWatchdogAlias(def.watchdog[pc.i])
       IN  AfterAssign(r, -2, SetAlias(def, "watchdog", pc.i, r.alias))

IfMemballoon ==
    /\ pc.loop = "memballoon"
    /\ LET r == qemuAssignDeviceMemballoonAlias(def.memballoon[pc.i], 0)
       IN  AfterAssign(r, 0, SetAlias(def, "memballoon", pc.i, r.alias))

LoopRNGs ==
    /\ pc.loop = "rngs"
    /\ LET r == qemuAssignDeviceRNGAlias(def, def.rngs[pc.i])
       IN  AfterAssign(r, -1, SetAlias(def, "rngs", pc.i, r.alias))

LoopTPMs ==
    /\ pc.loop = "tpms"
    /\ LET r == qemuAssignDeviceTPMAlias(def.tpms[pc.i], pc.i - 1)
       IN  AfterAssign(r, pc.i - 1, SetAlias(def, "tpms", pc.i, r.alias))

LoopMems ==
    /\ pc.loop = "mems"
    /\ LET r == qemuAssignDeviceMemoryAlias(def, def.mems[pc.i], FALSE)
       IN  AfterAssign(r, -2, SetAlias(def, "mems", pc.i, r.alias))

IfVsock ==
    /\ pc.loop = "vsock"
    /\ LET r == qemuAssignDeviceVsockAlias(def.vsock[pc.i])
       IN  AfterAssign(r, -2, SetAlias(def, "vsock", pc.i, r.alias))

\* return 0 after the last loop
ReturnSuccess ==
    /\ pc.loop = "end"
    /\ pc' = [loop |-> "done", i |-> 0]
    /\ ret' = 0
    /\ UNCHANGED <<def, qemuCaps, rerun, def0, pre, last, indexVars, backupVars, dnsmasqVars, utilVars>>

-----------------------------------------------------------------------------------------------------------------------------------------------------
(* The exported assigners called on their own (device hot-plug): on device *)
(* i of the list, or with i = 0 on a new device that is not in the list.   *)

ArgIdx == {-1, 0, MaxIdx + 1}

NumDevs(d) ==
    Len(d.disks) + Len(d.nets) + Len(d.fss) + Len(d.sounds) + Len(d.hostdevs)
    + Len(d.redirdevs) + Len(d.videos) + Len(d.controllers) + Len(d.inputs)
    + Len(d.parallels) + Len(d.serials) + Len(d.channels) + Len(d.consoles)
    + Len(d.hubs) + Len(d.shmems) + Len(d.smartcards) + Len(d.watchdog)
    + Len(d.memballoon) + Len(d.rngs) + Len(d.tpms) + Len(d.mems) + Len(d.vsock)

\* the positions a direct call can be made on
Targets(loop) == {i \in 0..Len(def[loop]) : i = 0 => NumDevs(def) < MaxDevs}

Target(loop, i, new) == IF i = 0 THEN new ELSE def[loop][i]

AfterCall(loop, i, dev, idx, r) ==
    /\ pre' = def
    /\ last' = [loop |-> loop, i |-> i, idx |-> idx, ret |-> r.ret, alias |-> r.alias,
                how |-> "call", dev |-> dev]
    /\ pc' = [loop |-> "called", i |-> 0]
    /\ UNCHANGED <<qemuCaps, ret, rerun, def0, indexVars, backupVars, dnsmasqVars, utilVars>>

\* the device's alias is written through the caller's pointer
StoreAlias(loop, i, alias) ==
    def' = IF i = 0 THEN def ELSE SetAlias(def, loop, i, alias)

CallChrAlias ==
    /\ pc.loop = "idle"
    /\ \E type \in {"parallel", "serial", "channel", "console"}, idx \in ArgIdx :
        \E i \in Targets(type \o "s") :
            LET chr == Target(type \o "s", i, [alias |-> NULL, deviceType |-> type])
                r == qemuAssignDeviceChrAlias(def, chr, idx)
            IN  StoreAlias(type \o "s", i, r.alias) /\ AfterCall(type \o "s", i, chr, idx, r)

CallNetAlias ==
    /\ pc.loop = "idle"
    /\ \E idx \in ArgIdx, type \in {"bridge", "hostdev"} :
        \E i \in Targets("nets") :
            LET net == Target("nets", i, [alias |-> NULL, type |-> type])
                r == qemuAssignDeviceNetAlias(def, net, idx)
            IN  StoreAlias("nets", i, r.alias) /\ AfterCall("nets", i, net, idx, r)

CallHostdevAlias ==
    /\ pc.loop = "idle"
    /\ \E idx \in ArgIdx :
        \E i \in Targets("hostdevs") :
            LET hostdev == Target("hostdevs", i, [alias |-> NULL, net |-> 0])
                r == qemuAssignDeviceHostdevAlias(def, HostdevInfo(def, hostdev).alias, idx)
            IN  /\ IF hostdev.net = 0 THEN StoreAlias("hostdevs", i, r.alias)
                   ELSE StoreAlias("nets", hostdev.net, r.alias)
                /\ AfterCall("hostdevs", i, hostdev, idx, r)

CallRedirdevAlias ==
    /\ pc.loop = "idle"
    /\ \E idx \in ArgIdx :
        \E i \in Targets("redirdevs") :
            LET redirdev == Target("redirdevs", i, [alias |-> NULL])
                r == qemuAssignDeviceRedirdevAlias(def, redirdev, idx)
            IN  StoreAlias("redirdevs", i, r.alias) /\ AfterCall("redirdevs", i, redirdev, idx, r)

CallRNGAlias ==
    /\ pc.loop = "idle"
    /\ \E i \in Targets("rngs") :
        LET rng == Target("rngs", i, [alias |-> NULL])
            r == qemuAssignDeviceRNGAlias(def, rng)
        IN  StoreAlias("rngs", i, r.alias) /\ AfterCall("rngs", i, rng, -1, r)

\* the index argument recorded is -1 for oldAlias = true and -2 for false
CallMemoryAlias ==
    /\ pc.loop = "idle"
    /\ \E oldAlias \in BOOLEAN, model \in {"dimm", "nvdimm", "virtio-pmem"} :
        \E i \in Targets("mems") :
            LET mem == Target("mems", i, [alias |-> NULL, model |-> model, slot |-> MaxIdx])
                r == qemuAssignDeviceMemoryAlias(def, mem, oldAlias)
            IN  /\ StoreAlias("mems", i, r.alias)
                /\ AfterCall("mems", i, mem, IF oldAlias THEN -1 ELSE -2, r)

CallShmemAlias ==
    /\ pc.loop = "idle"
    /\ \E idx \in ArgIdx :
        \E i \in Targets("shmems") :
            LET shmem == Target("shmems", i, [alias |-> NULL])
                r == qemuAssignDeviceShmemAlias(def, shmem, idx)
            IN  StoreAlias("shmems", i, r.alias) /\ AfterCall("shmems", i, shmem, idx, r)

CallInputAlias ==
    /\ pc.loop = "idle"
    /\ \E idx \in ArgIdx :
        \E i \in Targets("inputs") :
            LET input == Target("inputs", i, [alias |-> NULL])
                r == qemuAssignDeviceInputAlias(def, input, idx)
            IN  StoreAlias("inputs", i, r.alias) /\ AfterCall("inputs", i, input, idx, r)

-----------------------------------------------------------------------------
(* The domain definitions the model starts from *)

EmptyDef(machine) ==
    [disks |-> <<>>, nets |-> <<>>, fss |-> <<>>, sounds |-> <<>>, hostdevs |-> <<>>,
     redirdevs |-> <<>>, videos |-> <<>>, controllers |-> <<>>, inputs |-> <<>>,
     parallels |-> <<>>, serials |-> <<>>, channels |-> <<>>, consoles |-> <<>>,
     hubs |-> <<>>, shmems |-> <<>>, smartcards |-> <<>>, watchdog |-> <<>>,
     memballoon |-> <<>>, rngs |-> <<>>, tpms |-> <<>>, mems |-> <<>>, vsock |-> <<>>,
     machine |-> machine]

\* the numeric suffixes of the aliases some devices carry before the pass
PresetIdx == {0, MaxIdx + 1}

Item(loop, dev) == [loop |-> loop, dev |-> dev]

Items(loop, devs) == {Item(loop, x) : x \in devs}

Drive(c, b, t, u) == [controller |-> c, bus |-> b, target |-> t, unit |-> u]

Disk(alias, bus, type, drive, dst) ==
    [alias |-> alias, qomName |-> NULL, bus |-> bus, type |-> type, drive |-> drive,
     dst |-> dst]

Controller(alias, type, model, idx) ==
    [alias |-> alias, type |-> type, model |-> model, idx |-> idx]

Chr(alias, type) == [alias |-> alias, deviceType |-> type]

\* NULL or prefix<k> for a preset index k
Presets(prefixes) == {[alias |-> NULL]} \cup
    {[alias |-> p \o FmtInt(k)] : p \in prefixes, k \in PresetIdx}

\* NULL or prefix<MaxIdx>: the alias the pass gives the device after it
OnePreset(prefix) == {[alias |-> NULL], [alias |-> prefix \o FmtInt(MaxIdx)]}

\* every class, each with a device without alias and one that carries one
PoolGeneral ==
    Items("disks", {Disk(NULL, "virtio", "pci", Drive(0, 0, 0, 0), "vda"),
                    Disk(NULL, "scsi", "drive", Drive(0, 0, MaxIdx, 0), "sda"),
                    Disk("virtio-disk0", "virtio", "pci", Drive(0, 0, 0, 0), "vdb")})
    \cup Items("nets", {[alias |-> NULL, type |-> "bridge"],
                        [alias |-> NULL, type |-> "hostdev"],
                        [alias |-> "net" \o FmtInt(MaxIdx), type |-> "bridge"]})
    \cup Items("fss", OnePreset("fs"))
    \cup Items("sounds", OnePreset("sound"))
    \cup Items("hostdevs", {[alias |-> NULL, net |-> 0], [alias |-> NULL, net |-> 1],
                            [alias |-> "hostdev" \o FmtInt(MaxIdx), net |-> 0]})
    \cup Items("redirdevs", OnePreset("redir"))
    \cup Items("videos", OnePreset("video"))
    \cup Items("controllers", {Controller(NULL, "pci", "pci-root", 0),
                               Controller(NULL, "scsi", "lsilogic", 0),
                               Controller("usb", "usb", "default", MaxIdx)})
    \cup Items("inputs", OnePreset("input"))
    \cup Items("parallels", {Chr(x.alias, "parallel") : x \in OnePreset("parallel")})
    \cup Items("serials", {Chr(x.alias, "serial") : x \in OnePreset("serial")})
    \cup Items("channels", {Chr(x.alias, "channel") : x \in OnePreset("channel")})
    \cup Items("consoles", {Chr(x.alias, "console") : x \in OnePreset("console")})
    \cup Items("hubs", OnePreset("hub"))
    \cup Items("shmems", OnePreset("shmem"))
    \cup Items("smartcards", OnePreset("smartcard"))
    \cup Items("watchdog", {[alias |-> NULL], [alias |-> "watchdog0"]})
    \cup Items("memballoon", {[alias |-> NULL, model |-> "virtio"],
                              [alias |-> NULL, model |-> "none"],
                              [alias |-> "balloon0", model |-> "virtio"]})
    \cup Items("rngs", OnePreset("rng"))
    \cup Items("tpms", OnePreset("tpm"))
    \cup Items("mems", {[alias |-> NULL, model |-> "dimm", slot |-> 0],
                        [alias |-> NULL, model |-> "none", slot |-> 0],
                        [alias |-> "dimm" \o FmtInt(MaxIdx), model |-> "dimm", slot |-> MaxIdx]})
    \cup Items("vsock", {[alias |-> NULL], [alias |-> "vsock0"]})

ControllerKinds ==
    {<<"pci", "pci-root">>, <<"pci", "pcie-root">>, <<"pci", "pci-bridge">>,
     <<"ide", "default">>, <<"sata", "default">>, <<"usb", "default">>,
     <<"scsi", "lsilogic">>, <<"scsi", "ncr53c90">>, <<"scsi", "virtio-scsi">>,
     <<"virtio-serial", "default">>}

\* a qomName read back from the status of a running domain
PresetQomName == "/machine/peripheral/ua-data/virtio-backend"

\* controllers of every kind and index, and the disks that attach to them; one
\* disk comes with its alias and its qomName
PoolStorage ==
    Items("controllers", {Controller(NULL, k[1], k[2], i) :
                             k \in ControllerKinds, i \in {0, MaxIdx}})
    \cup Items("controllers", {Controller("scsi0", "ccid", "default", 0)})
    \cup Items("disks", {Disk(NULL, "ide", "drive", Drive(0, MaxIdx, 0, 0), "hdc"),
                         Disk(NULL, "scsi", "drive", Drive(0, 0, MaxIdx, 0), "sda"),
                         Disk(NULL, "sata", "drive", Drive(MaxIdx, 0, 0, 0), "sdb"),
                         Disk(NULL, "virtio", "pci", Drive(0, 0, 0, 0), "vda"),
                         Disk(NULL, "virtio", "pci", Drive(0, 0, 0, 0), "vdb"),
                         Disk(NULL, "usb", "none", Drive(0, 0, 0, 0), "disk1"),
                         Disk(NULL, "sd", "none", Drive(0, 0, 0, 0), "sdc"),
                         [Disk("virtio-disk1", "virtio", "pci", Drive(0, 0, 0, 0), "vda")
                             EXCEPT !.qomName = PresetQomName]})

\* the classes whose index is scanned from the aliases in use
PoolScanned ==
    Items("nets", {[alias |-> NULL, type |-> t] : t \in {"bridge", "hostdev"}})
    \cup Items("nets", {[alias |-> x.alias, type |-> "bridge"] :
                           x \in Presets({"net"}) \ {[alias |-> NULL]}})
    \cup Items("nets", {[alias |-> "hostdev" \o FmtInt(MaxIdx + 1), type |-> "hostdev"]})
    \cup Items("hostdevs", {[alias |-> x.alias, net |-> 0] : x \in Presets({"hostdev"})})
    \cup Items("hostdevs", {[alias |-> NULL, net |-> 1]})
    \cup Items("redirdevs", OnePreset("redir"))
    \cup Items("inputs", OnePreset("input"))
    \cup Items("consoles", {Chr(NULL, "console"), Chr("console" \o FmtInt(MaxIdx), "console"),
                            Chr("serial" \o FmtInt(MaxIdx + 1), "console")})
    \cup Items("shmems", OnePreset("shmem"))
    \cup Items("rngs", Presets({"rng"}) \cup {[alias |-> "rng"]})
    \cup Items("mems", {[alias |-> NULL, model |-> "dimm", slot |-> MaxIdx],
                        [alias |-> NULL, model |-> "nvdimm", slot |-> 0],
                        [alias |-> NULL, model |-> "virtio-pmem", slot |-> 0],
                        [alias |-> "dimm" \o FmtInt(MaxIdx + 1), model |-> "dimm",
                         slot |-> 0]})

Flags(machine, multibus, blockdev) ==
    [machine |-> machine, caps |-> [multibus |-> multibus, blockdev |-> blockdev]]

\* a family of definitions: the devices to draw from, with the machine types
\* and capabilities to run them under (no assigner reads more than one of
\* the three)
Families ==
    {[pool |-> PoolGeneral, flags |-> {Flags("q35", TRUE, TRUE)}],
     [pool |-> PoolStorage, flags |-> {Flags("pc", FALSE, FALSE), Flags("q35", TRUE, TRUE)}],
     [pool |-> PoolScanned, flags |-> {Flags("pc", FALSE, FALSE)}]}

\* the definition that holds the items, each appended to the list of its class
RECURSIVE Build(_, _)
Build(d, items) ==
    IF items = <<>> THEN d
    ELSE LET it == Head(items)
         IN  Build([d EXCEPT ![it.loop] = Append(@, it.dev)], Tail(items))

\* items grouped by class, in the order of the loops
Grouped(items) ==
    \A j \in 1..(Len(items) - 1) : LoopIndex(items[j].loop) <= LoopIndex(items[j + 1].loop)

\* the devices of a definition, as <<list, position>>
Positions(d) ==
    UNION {{<<LoopOrder[k], i>> : i \in 1..Len(d[LoopOrder[k]])} : k \in 1..Len(LoopOrder)}

\* the alias in the info of the device at pos
AliasAt(d, pos) ==
    IF pos[1] = "hostdevs" THEN HostdevInfo(d, d.hostdevs[pos[2]]).alias
    ELSE d[pos[1]][pos[2]].alias

\* the device at pos has an info of its own (a host device that belongs to
\* an interface is the same device as the interface)
OwnsInfo(d, pos) == pos[1] = "hostdevs" => d.hostdevs[pos[2]].net = 0

\* what the parser guarantees: at most one watchdog, balloon and vsock; a
\* host device that belongs to an interface shares the info of an interface
\* of type hostdev, and no two host devices belong to the same interface; no
\* two devices come with the same alias
WellFormed(d) ==
    /\ Len(d.watchdog) <= 1 /\ Len(d.memballoon) <= 1 /\ Len(d.vsock) <= 1
    /\ \A i \in 1..Len(d.hostdevs) :
          d.hostdevs[i].net # 0 =>
              /\ d.hostdevs[i].net <= Len(d.nets)
              /\ d.nets[d.hostdevs[i].net].type = "hostdev"
              /\ \A j \in 1..Len(d.hostdevs) :
                    d.hostdevs[j].net = d.hostdevs[i].net => j = i
    /\ \A p, q \in {pos \in Positions(d) : OwnsInfo(d, pos)} :
          (p # q /\ AliasAt(d, p) # NULL) => AliasAt(d, p) # AliasAt(d, q)

\* no call of qemuDomainDeviceAliasIndex is being followed
NoProbe == [alias |-> NULL, prefix |-> "", pc |-> "none", idx |-> 0]

\* no alias is being assigned
NoAliases ==
    /\ def = EmptyDef("pc")
    /\ qemuCaps = [multibus |-> FALSE, blockdev |-> FALSE]
    /\ pc = [loop |-> "none", i |-> 0]
    /\ ret = 0
    /\ rerun = FALSE
    /\ def0 = def
    /\ pre = def
    /\ last = [loop |-> "none", i |-> 0, idx |-> 0, ret |-> 0, alias |-> NULL,
               how |-> "none", dev |-> [alias |-> NULL]]

\* a document that has not been written
NoDocument == <<>>

\* no backup job is being followed
NoBackup ==
    /\ xmlDoc = NoDocument
    /\ flags = FALSE
    /\ dom = <<>>
    /\ backup = NullPtr
    /\ bpc = "none"
    /\ alignRet = 0
    /\ buf = NoDocument
    /\ preAlign = NullPtr
    /\ first = NullPtr
    /\ aligned = FALSE

\* a path that names no file, and a file with the given content
NoFile == [exists |-> FALSE, data |-> ""]

FileOf(data) == [exists |-> TRUE, data |-> data]

\* no stream is open
NoStream == [open |-> FALSE, file |-> "none", pending |-> ""]

NoReading == [done |-> FALSE, file |-> NoFile]

\* no host file is being saved
NoDnsmasq ==
    /\ files = [path |-> NoFile, tmp |-> NoFile]
    /\ stream = NoStream
    /\ wpc = "none"
    /\ istmp = TRUE
    /\ wrc = 0
    /\ nwritten = 0
    /\ wjob = [kind |-> "none", hosts |-> <<>>]
    /\ oldFile = NoFile
    /\ reading = NoReading
    /\ calls = <<>>

\* dnsmasqDelete is not being followed
NoDelete ==
    /\ ctxFiles = [hostsfile |-> NoFile, addnhostsfile |-> NoFile]
    /\ dpc = "none"
    /\ dret = 0
    /\ ctxFiles0 = ctxFiles
    /\ unlinks = [hostsfile |-> "none", addnhostsfile |-> "none"]

NoRefresh == [existing |-> FALSE, probed |-> FALSE, okMtime |-> 0]

NoBinary == [exists |-> FALSE, mtime |-> 0, executable |-> FALSE, runs |-> FALSE,
             out |-> [parses |-> FALSE, version |-> 0, flags |-> {}]]

\* dnsmasqCapsRefresh is not being followed
NoCaps ==
    /\ dcaps = NullPtr
    /\ binary = NoBinary
    /\ cpc = "none"
    /\ capsRet = 0
    /\ lastRefresh = NoRefresh
    /\ okMtime = 0

\* virXMLNodeSanitizeNamespaces is not being followed
NoXml ==
    /\ xnode = NullPtr
    /\ xchild = 0
    /\ xnext = 0
    /\ xpc = "none"
    /\ xorig = NullPtr

NoUtil == NoDelete /\ NoCaps /\ NoXml

Init ==
    /\ \E fam \in Families :
          \E f \in fam.flags, n \in 0..MaxDevs :
             \E items \in [1..n -> fam.pool] :
                /\ Grouped(items)
                /\ WellFormed(Build(EmptyDef(f.machine), items))
                /\ def = Build(EmptyDef(f.machine), items)
                /\ qemuCaps = f.caps
    /\ pc = [loop |-> "idle", i |-> 0]
    /\ ret = 0
    /\ rerun = FALSE
    /\ def0 = def
    /\ pre = def
    /\ last = [loop |-> "none", i |-> 0, idx |-> 0, ret |-> 0, alias |-> NULL,
               how |-> "none", dev |-> [alias |-> NULL]]
    /\ probe = NoProbe
    /\ NoBackup
    /\ NoDnsmasq
    /\ NoUtil

Next ==
    \/ Enter
    \/ LoopDisks
    \/ LoopNets
    \/ LoopFSs
    \/ LoopSounds
    \/ LoopHostdevs
    \/ LoopRedirdevs
    \/ LoopVideos
    \/ LoopControllers
    \/ LoopInputs
    \/ LoopParallels
    \/ LoopSerials
    \/ LoopChannels
    \/ LoopConsoles
    \/ LoopHubs
    \/ LoopShmems
    \/ LoopSmartcards
    \/ IfWatchdog
    \/ IfMemballoon
    \/ LoopRNGs
    \/ LoopTPMs
    \/ LoopMems
    \/ IfVsock
    \/ ReturnSuccess
    \/ CallChrAlias
    \/ CallNetAlias
    \/ CallHostdevAlias
    \/ CallRedirdevAlias
    \/ CallRNGAlias
    \/ CallMemoryAlias
    \/ CallShmemAlias
    \/ CallInputAlias

Spec == Init /\ [][Next]_vars

-----------------------------------------------------------------------------
(* qemuDomainDeviceAliasIndex on its own: one call per behaviour, on an    *)
(* alias and a prefix drawn from the pools below.                          *)

MaxPad == 2         \* most zeros written in front of a number

ProbePrefixes == {"net", "hostdev", "ua-"}

\* the numbers the pool spells
ProbeValues == {0, 1, 7, 10, INT_MAX}

RECURSIVE Zeros(_)
Zeros(n) == IF n = 0 THEN "" ELSE "0" \o Zeros(n - 1)

\* the ways strtol reads as k >= 0: white space, a sign, zeros, the digits
Spellings(k) ==
    {sp \o sign \o Zeros(z) \o FmtNat(k) :
        sp \in {"", " "},
        sign \in {"", "+"} \cup (IF k = 0 THEN {"-"} ELSE {}),
        z \in 0..MaxPad}

\* negative numbers, numbers that do not fit an int, and text that is no number
ProbeOthers ==
    {"-1", "-7", "-2147483648", "-2147483649", "2147483648", "99999999999",
     "", "-", "+", "x", "1x", "x1", "1 ", "1.5", "0x10", "--1", "+-1", "1-", "- 1"}

ProbeRemainders == UNION {Spellings(k) : k \in ProbeValues} \cup ProbeOthers

ProbeAliases == {NULL} \cup {p \o r : p \in ProbePrefixes, r \in ProbeRemainders}

InitIndex ==
    /\ \E a \in ProbeAliases, p \in ProbePrefixes :
          probe = [alias |-> a, prefix |-> p, pc |-> "call", idx |-> 0]
    /\ NoAliases
    /\ NoBackup
    /\ NoDnsmasq
    /\ NoUtil

\* idx = qemuDomainDeviceAliasIndex(info, prefix); info is const
CallAliasIndex ==
    /\ probe.pc = "call"
    /\ probe' = [probe EXCEPT !.pc = "returned",
                    !.idx = qemuDomainDeviceAliasIndex([alias |-> probe.alias], probe.prefix)]
    /\ UNCHANGED <<aliasVars, backupVars, dnsmasqVars, utilVars>>

NextIndex == CallAliasIndex

SpecIndex == InitIndex /\ [][NextIndex]_vars

-----------------------------------------------------------------------------
(* Backup job descriptors (src/conf/backup_conf.c).  A document is the     *)
(* tree libxml2 hands to the parser: a record of the attributes and child  *)
(* elements the parser asks for, NULL for an attribute that is not there.  *)

\* VIR_ENUM_IMPL: the value of a name is its position from 0, -1 if unknown
virEnumFromString(names, s) ==
    IF \E i \in 1..Len(names) : names[i] = s
    THEN (CHOOSE i \in 1..Len(names) : names[i] = s) - 1
    ELSE -1

virEnumToString(names, v) == names[v + 1]

virDomainBackupTypes == <<"default", "push", "pull">>

virDomainBackupDiskStates ==
    <<"", "running", "complete", "failed", "cancelling", "cancelled">>

virDomainBackupDiskBackupModes == <<"", "full", "incremental">>

virTristateBools == <<"default", "yes", "no">>

virStorageTypes ==
    <<"none", "file", "block", "dir", "network", "volume", "nvme", "vhostuser">>

virStorageFileFormats ==
    <<"none", "raw", "dir", "bochs", "cloop", "dmg", "iso", "vpc", "vdi", "fat",
      "vhd", "ploop", "cow", "qcow", "qcow2", "qed", "vmdk">>

virStorageNetHostTransports == <<"tcp", "unix", "rdma">>

VIR_DOMAIN_BACKUP_TYPE_PUSH == virEnumFromString(virDomainBackupTypes, "push")

VIR_DOMAIN_BACKUP_TYPE_PULL == virEnumFromString(virDomainBackupTypes, "pull")

VIR_DOMAIN_BACKUP_DISK_STATE_NONE == virEnumFromString(virDomainBackupDiskStates, "")

VIR_DOMAIN_BACKUP_DISK_BACKUP_MODE_DEFAULT ==
    virEnumFromString(virDomainBackupDiskBackupModes, "")

VIR_DOMAIN_BACKUP_DISK_BACKUP_MODE_FULL ==
    virEnumFromString(virDomainBackupDiskBackupModes, "full")

VIR_DOMAIN_BACKUP_DISK_BACKUP_MODE_INCREMENTAL ==
    virEnumFromString(virDomainBackupDiskBackupModes, "incremental")

VIR_TRISTATE_BOOL_ABSENT == virEnumFromString(virTristateBools, "default")

VIR_TRISTATE_BOOL_YES == virEnumFromString(virTristateBools, "yes")

VIR_TRISTATE_BOOL_NO == virEnumFromString(virTristateBools, "no")

VIR_STORAGE_TYPE_NONE == virEnumFromString(virStorageTypes, "none")

VIR_STORAGE_TYPE_FILE == virEnumFromString(virStorageTypes, "file")

VIR_STORAGE_TYPE_BLOCK == virEnumFromString(virStorageTypes, "block")

VIR_STORAGE_TYPE_DIR == virEnumFromString(virStorageTypes, "dir")

VIR_STORAGE_NET_HOST_TRANS_TCP == virEnumFromString(virStorageNetHostTransports, "tcp")

VIR_STORAGE_NET_HOST_TRANS_UNIX == virEnumFromString(virStorageNetHostTransports, "unix")

VIR_STORAGE_NET_HOST_TRANS_RDMA == virEnumFromString(virStorageNetHostTransports, "rdma")

\* virStorageSourceNew(): a zeroed virStorageSource
virStorageSourceNew ==
    [type |-> VIR_STORAGE_TYPE_NONE, path |-> NULL, format |-> 0, id |-> 0,
     readonly |-> FALSE]

\* g_new0(virDomainBackupDiskDef, 1)
ZeroBackupDisk ==
    [name |-> NULL, backup |-> VIR_TRISTATE_BOOL_ABSENT,
     backupmode |-> VIR_DOMAIN_BACKUP_DISK_BACKUP_MODE_DEFAULT,
     incremental |-> NULL, exportname |-> NULL, exportbitmap |-> NULL,
     state |-> VIR_DOMAIN_BACKUP_DISK_STATE_NONE, store |-> NullPtr]

\* the result of a function that returns < 0 on error and fills *job
DiskFailed == [rc |-> -1, def |-> ZeroBackupDisk]

DiskParsed(d) == [rc |-> 0, def |-> d]

\* virStrToLong_uip(s, NULL, 10, &v): an unsigned number, no minus sign
virStrToLong_uip(s) ==
    IF First(SkipSpaces(s)) = "-" THEN [rc |-> -1, result |-> 0]
    ELSE virStrToLong_i(s)

\* virDomainStorageSourceParseBase(type, format, index): NULL on error
SourceWithIndex(src, r) ==
    IF r.rc < 0 THEN NullPtr ELSE Ptr([src EXCEPT !.id = r.result])

SourceWithFormat(src, format, index) ==
    IF format # NULL /\ virEnumFromString(virStorageFileFormats, format) <= 0
    THEN NullPtr
    ELSE IF index = NULL
    THEN Ptr([src EXCEPT !.format =
                 IF format = NULL THEN 0
                 ELSE virEnumFromString(virStorageFileFormats, format)])
    ELSE SourceWithIndex(
             [src EXCEPT !.format =
                 IF format = NULL THEN 0
                 ELSE virEnumFromString(virStorageFileFormats, format)],
             virStrToLong_uip(index))

virDomainStorageSourceParseBase(type, format, index) ==
    IF type # NULL /\ virEnumFromString(virStorageTypes, type) <= 0 THEN NullPtr
    ELSE SourceWithFormat(
             [virStorageSourceNew EXCEPT !.type =
                 IF type = NULL THEN VIR_STORAGE_TYPE_FILE
                 ELSE virEnumFromString(virStorageTypes, type)],
             format, index)

\* virDomainStorageSourceParse(node, ctxt, src, flags, xmlopt): the path of a
\* file is the attribute file, that of a block device the attribute dev
virDomainStorageSourceParse(node, src) ==
    [rc |-> 0,
     src |-> [src EXCEPT !.path = IF src.type = VIR_STORAGE_TYPE_FILE THEN node.file
                                  ELSE node.dev]]

\* lines 173-198: the store, and the <target> or <scratch> child if there
DiskWithSource(d, store, r) ==
    IF r.rc < 0 THEN DiskFailed ELSE DiskParsed([d EXCEPT !.store = Ptr(r.src)])

DiskWithStore(d, store, srcNode) ==
    IF store = NullPtr THEN DiskFailed
    ELSE IF Deref(store).type # VIR_STORAGE_TYPE_FILE
              /\ Deref(store).type # VIR_STORAGE_TYPE_BLOCK
    THEN DiskFailed
    ELSE IF srcNode # NullPtr
    THEN DiskWithSource(d, store, virDomainStorageSourceParse(Deref(srcNode), Deref(store)))
    ELSE DiskParsed([d EXCEPT !.store = store])

\* lines 140-171: what is read of an enabled disk before its store
DiskEnabledPart(node, push, internal, d) ==
    IF d.backup = VIR_TRISTATE_BOOL_NO THEN DiskParsed(d)
    ELSE IF node.backupmode # NULL
              /\ virEnumFromString(virDomainBackupDiskBackupModes, node.backupmode) < 0
    THEN DiskFailed
    ELSE IF internal /\ (node.state = NULL
                         \/ virEnumFromString(virDomainBackupDiskStates, node.state) < 0)
    THEN DiskFailed
    ELSE DiskWithStore(
             [d EXCEPT
                !.exportname = IF ~push THEN node.exportname ELSE NULL,
                !.exportbitmap = IF ~push THEN node.exportbitmap ELSE NULL,
                !.backupmode =
                    IF node.backupmode = NULL THEN d.backupmode
                    ELSE virEnumFromString(virDomainBackupDiskBackupModes, node.backupmode),
                !.incremental = node.incremental,
                !.state = IF internal
                          THEN virEnumFromString(virDomainBackupDiskStates, node.state)
                          ELSE d.state],
             virDomainStorageSourceParseBase(node.type, node.driver,
                                             IF internal THEN node.index ELSE NULL),
             IF push THEN node.target ELSE node.scratch)

virDomainBackupDiskDefParseXML(node, push, internal) ==
    IF node.name = NULL THEN DiskFailed
    ELSE IF node.backup # NULL /\ virEnumFromString(virTristateBools, node.backup) <= 0
    THEN DiskFailed
    ELSE DiskEnabledPart(node, push, internal,
             [ZeroBackupDisk EXCEPT
                !.name = node.name,
                !.backup = IF node.backup = NULL THEN VIR_TRISTATE_BOOL_YES
                           ELSE virEnumFromString(virTristateBools, node.backup)])

\* for (i = 0; i < def->ndisks; i++) if (DiskDefParseXML(...) < 0) return NULL;
RECURSIVE ParseDisks(_, _, _, _)
ParseDisksFrom(rest, push, internal, acc, r) ==
    IF r.rc < 0 THEN [rc |-> -1, disks |-> acc]
    ELSE ParseDisks(rest, push, internal, Append(acc, r.def))

ParseDisks(nodes, push, internal, acc) ==
    IF nodes = <<>> THEN [rc |-> 0, disks |-> acc]
    ELSE ParseDisksFrom(Tail(nodes), push, internal, acc,
                        virDomainBackupDiskDefParseXML(Head(nodes), push, internal))

\* virStringParsePort: a number from 0 to 65535
virStringParsePort(s) ==
    IF virStrToLong_uip(s).rc < 0 \/ virStrToLong_uip(s).result > 65535
    THEN [rc |-> -1, result |-> 0]
    ELSE virStrToLong_uip(s)

\* virDomainStorageNetworkParseHost(node, host): transport tcp unless given;
\* a socket with unix and only with unix, a name and a port otherwise
HostWithPort(host, node) ==
    IF node.port = NULL THEN [rc |-> 0, host |-> host]
    ELSE IF virStringParsePort(node.port).rc < 0 THEN [rc |-> -1, host |-> host]
    ELSE [rc |-> 0, host |-> [host EXCEPT !.port = virStringParsePort(node.port).result]]

HostOfTransport(node, transport) ==
    IF transport < 0 THEN [rc |-> -1, host |-> node]
    ELSE IF transport = VIR_STORAGE_NET_HOST_TRANS_UNIX
    THEN IF node.socket = NULL THEN [rc |-> -1, host |-> node]
         ELSE [rc |-> 0, host |-> [transport |-> transport, name |-> NULL, port |-> 0,
                                   socket |-> node.socket]]
    ELSE IF node.socket # NULL \/ node.name = NULL THEN [rc |-> -1, host |-> node]
    ELSE HostWithPort([transport |-> transport, name |-> node.name, port |-> 0,
                       socket |-> NULL], node)

virDomainStorageNetworkParseHost(node) ==
    HostOfTransport(node,
        IF node.transport = NULL THEN VIR_STORAGE_NET_HOST_TRANS_TCP
        ELSE virEnumFromString(virStorageNetHostTransports, node.transport))

\* g_new0(virDomainBackupDef, 1)
ZeroBackupDef ==
    [type |-> 0, incremental |-> NULL, server |-> NullPtr,
     tls |-> VIR_TRISTATE_BOOL_ABSENT, disks |-> <<>>,
     tlsSecretAlias |-> NULL, tlsAlias |-> NULL]

\* lines 253-283: the host of <server>, its transport and its tls attribute
ServerChecked(job, node, h) ==
    IF h.rc < 0 THEN NullPtr
    ELSE IF h.host.transport = VIR_STORAGE_NET_HOST_TRANS_RDMA THEN NullPtr
    ELSE IF h.host.transport = VIR_STORAGE_NET_HOST_TRANS_UNIX
              /\ First(h.host.socket) # "/"
    THEN NullPtr
    ELSE IF node.tls # NULL /\ virEnumFromString(virTristateBools, node.tls) <= 0
    THEN NullPtr
    ELSE Ptr([job EXCEPT
                !.server = Ptr(h.host),
                !.tls = IF node.tls = NULL THEN job.tls
                        ELSE virEnumFromString(virTristateBools, node.tls)])

\* a parse that takes <server> in every mode
ServerPart_AnyMode(job, ctxt) ==
    IF ctxt.server = NullPtr THEN Ptr(job)
    ELSE ServerChecked(job, Deref(ctxt.server),
                       virDomainStorageNetworkParseHost(Deref(ctxt.server)))

\* lines 244-284: NULL when the document is refused, else job with the server
ServerPart(job, ctxt) ==
    IF ctxt.server = NullPtr THEN Ptr(job)
    ELSE IF job.type # VIR_DOMAIN_BACKUP_TYPE_PULL THEN NullPtr
    ELSE ServerChecked(job, Deref(ctxt.server),
                       virDomainStorageNetworkParseHost(Deref(ctxt.server)))

\* virXPathString: NULL for the empty string
virXPathString(s) == IF s = "" THEN NULL ELSE s

\* virDomainBackupDefParsePrivate
virDomainBackupDefParsePrivate(job, ctxt, internal) ==
    IF ~internal THEN job
    ELSE [job EXCEPT !.tlsSecretAlias = virXPathString(ctxt.tlsSecretAlias),
                     !.tlsAlias = virXPathString(ctxt.tlsAlias)]

\* lines 286-301
DisksPart(job, ctxt, internal, r) ==
    IF r.rc < 0 THEN NullPtr
    ELSE Ptr(virDomainBackupDefParsePrivate([job EXCEPT !.disks = r.disks], ctxt, internal))

\* lines 240-301: all that follows the mode attribute
AfterMode(p, ctxt, internal) ==
    IF p = NullPtr THEN NullPtr
    ELSE DisksPart(Deref(p), ctxt, internal,
                   ParseDisks(ctxt.disks, Deref(p).type = VIR_DOMAIN_BACKUP_TYPE_PUSH,
                              internal, <<>>))

WithMode(ctxt, internal, job) ==
    AfterMode(ServerPart([job EXCEPT !.incremental = virXPathString(ctxt.incremental)],
                         ctxt),
              ctxt, internal)

\* a parse that takes every name of the enumeration, "default" included
virDomainBackupDefParse_AnyMode(ctxt, internal) ==
    IF ctxt.mode # NULL /\ virEnumFromString(virDomainBackupTypes, ctxt.mode) < 0
    THEN NullPtr
    ELSE WithMode(ctxt, internal,
             [ZeroBackupDef EXCEPT !.type =
                 IF ctxt.mode = NULL THEN VIR_DOMAIN_BACKUP_TYPE_PUSH
                 ELSE virEnumFromString(virDomainBackupTypes, ctxt.mode)])

\* virDomainBackupDefParse(ctxt, xmlopt, flags): NULL or the job
virDomainBackupDefParse(ctxt, internal) ==
    IF ctxt.mode # NULL /\ virEnumFromString(virDomainBackupTypes, ctxt.mode) <= 0
    THEN NullPtr
    ELSE WithMode(ctxt, internal,
             [ZeroBackupDef EXCEPT !.type =
                 IF ctxt.mode = NULL THEN VIR_DOMAIN_BACKUP_TYPE_PUSH
                 ELSE virEnumFromString(virDomainBackupTypes, ctxt.mode)])

\* an element with none of the attributes and children the parser reads
NoDiskNode ==
    [name |-> NULL, backup |-> NULL, state |-> NULL, type |-> NULL,
     backupmode |-> NULL, incremental |-> NULL, exportname |-> NULL,
     exportbitmap |-> NULL, index |-> NULL, driver |-> NULL,
     target |-> NullPtr, scratch |-> NullPtr]

NoSourceNode == [file |-> NULL, dev |-> NULL]

\* virDomainDiskSourceFormat(buf, src, name, ...): the element that carries
\* the path of a file or block device, no element without a path
virDomainDiskSourceFormat(src) ==
    IF src.path = NULL THEN NullPtr
    ELSE IF src.type = VIR_STORAGE_TYPE_FILE THEN Ptr([NoSourceNode EXCEPT !.file = src.path])
    ELSE IF src.type = VIR_STORAGE_TYPE_BLOCK THEN Ptr([NoSourceNode EXCEPT !.dev = src.path])
    ELSE NullPtr

\* the attributes every <disk> gets: name, backup and, internally, the state
DiskNodeHead(disk, internal) ==
    [NoDiskNode EXCEPT
        !.name = disk.name,
        !.backup = virEnumToString(virTristateBools, disk.backup),
        !.state = IF internal /\ disk.state # VIR_DOMAIN_BACKUP_DISK_STATE_NONE
                  THEN virEnumToString(virDomainBackupDiskStates, disk.state)
                  ELSE NULL]

\* virDomainBackupDiskDefFormat(buf, disk, push, internal): the <disk> element
virDomainBackupDiskDefFormat(disk, push, internal) ==
    IF disk.backup # VIR_TRISTATE_BOOL_YES THEN DiskNodeHead(disk, internal)
    ELSE [DiskNodeHead(disk, internal) EXCEPT
            !.type = virEnumToString(virStorageTypes, Deref(disk.store).type),
            !.backupmode =
                IF disk.backupmode # VIR_DOMAIN_BACKUP_DISK_BACKUP_MODE_DEFAULT
                THEN virEnumToString(virDomainBackupDiskBackupModes, disk.backupmode)
                ELSE NULL,
            !.incremental = disk.incremental,
            !.exportname = disk.exportname,
            !.exportbitmap = disk.exportbitmap,
            !.index = IF Deref(disk.store).id # 0 THEN FmtNat(Deref(disk.store).id)
                      ELSE NULL,
            !.driver = IF Deref(disk.store).format > 0
                       THEN virEnumToString(virStorageFileFormats, Deref(disk.store).format)
                       ELSE NULL,
            !.target = IF push THEN virDomainDiskSourceFormat(Deref(disk.store))
                       ELSE NullPtr,
            !.scratch = IF push THEN NullPtr
                        ELSE virDomainDiskSourceFormat(Deref(disk.store))]

\* the attributes of <server>
ServerNode(job) ==
    IF job.server = NullPtr THEN NullPtr
    ELSE Ptr([transport |-> virEnumToString(virStorageNetHostTransports,
                                            Deref(job.server).transport),
              tls |-> IF job.tls # VIR_TRISTATE_BOOL_ABSENT
                      THEN virEnumToString(virTristateBools, job.tls) ELSE NULL,
              name |-> Deref(job.server).name,
              port |-> IF Deref(job.server).port # 0 THEN FmtNat(Deref(job.server).port)
                       ELSE NULL,
              socket |-> Deref(job.server).socket])

\* virDomainBackupDefFormat(buf, job, internal): the document written
virDomainBackupDefFormat(job, internal) ==
    [mode |-> virEnumToString(virDomainBackupTypes, job.type),
     incremental |-> job.incremental,
     server |-> ServerNode(job),
     disks |-> [i \in 1..Len(job.disks) |->
                  virDomainBackupDiskDefFormat(job.disks[i],
                      job.type = VIR_DOMAIN_BACKUP_TYPE_PUSH, internal)],
     tlsSecretAlias |-> IF internal THEN job.tlsSecretAlias ELSE NULL,
     tlsAlias |-> IF internal THEN job.tlsAlias ELSE NULL]

-----------------------------------------------------------------------------
(* virDomainBackupAlignDisks *)

\* virStorageSourceIsEmpty(src): local storage without a path, or no type
virStorageSourceIsEmpty(src) ==
    \/ src.type \in {VIR_STORAGE_TYPE_FILE, VIR_STORAGE_TYPE_BLOCK, VIR_STORAGE_TYPE_DIR}
       /\ src.path = NULL
    \/ src.type = VIR_STORAGE_TYPE_NONE

virStorageSourceGetActualType(src) == src.type

\* virDomainDiskByTarget(domain, name): the position of the disk, 0 for NULL
virDomainDiskByTarget(domain, name) ==
    IF \E i \in 1..Len(domain) : domain[i].dst = name
    THEN CHOOSE i \in 1..Len(domain) : domain[i].dst = name
    ELSE 0

virDomainBackupDefAssignStore(disk, src, suffix) ==
    IF virStorageSourceIsEmpty(src)
    THEN IF disk.store # NullPtr THEN [rc |-> -1, disk |-> disk]
         ELSE [rc |-> 0, disk |-> disk]
    ELSE IF disk.store = NullPtr
    THEN IF virStorageSourceGetActualType(src) = VIR_STORAGE_TYPE_FILE
         THEN [rc |-> 0,
               disk |-> [disk EXCEPT !.store =
                           Ptr([virStorageSourceNew EXCEPT
                                   !.type = VIR_STORAGE_TYPE_FILE,
                                   !.path = src.path \o "." \o suffix])]]
         ELSE [rc |-> -1, disk |-> disk]
    ELSE [rc |-> 0, disk |-> disk]

\* the checks of a requested disk that ask for no incremental name
RequestRefused_NoIncremental(job, domain, bd, seen) ==
    \/ virDomainDiskByTarget(domain, bd.name) = 0
    \/ bd.name \in seen

\* lines 525-545: no such disk, a name given twice, incremental without a name
RequestRefused(job, domain, bd, seen) ==
    \/ virDomainDiskByTarget(domain, bd.name) = 0
    \/ bd.name \in seen
    \/ /\ bd.backupmode = VIR_DOMAIN_BACKUP_DISK_BACKUP_MODE_INCREMENTAL
       /\ bd.incremental = NULL
       /\ job.incremental = NULL

\* lines 521-551: the loop over the requested disks, from disk i on, seen
\* being the names in the hash table
RECURSIVE CheckRequested(_, _, _, _, _)
RequestStored(job, domain, suffix, i, seen, r) ==
    IF r.rc < 0 THEN [ret |-> -1, def |-> job]
    ELSE CheckRequested([job EXCEPT !.disks[i] = r.disk], domain, suffix, i + 1,
                        seen \cup {r.disk.name})

CheckRequested(job, domain, suffix, i, seen) ==
    IF i > Len(job.disks) THEN [ret |-> 0, def |-> job]
    ELSE IF RequestRefused(job, domain, job.disks[i], seen) THEN [ret |-> -1, def |-> job]
    ELSE IF job.disks[i].backup = VIR_TRISTATE_BOOL_YES
    THEN RequestStored(job, domain, suffix, i, seen,
             virDomainBackupDefAssignStore(
                 job.disks[i],
                 domain[virDomainDiskByTarget(domain, job.disks[i].name)].src, suffix))
    ELSE CheckRequested(job, domain, suffix, i + 1, seen \cup {job.disks[i].name})

\* VIR_EXPAND_N(def->disks, def->ndisks, n): n zeroed entries at the end
VIR_EXPAND_N(disks, n) == disks \o [j \in 1..n |-> ZeroBackupDisk]

\* a backfill that enables the read-only disks too
SynthEnabled_ReadOnlyToo(backup_all, src) ==
    backup_all /\ ~virStorageSourceIsEmpty(src)

\* a backfill that enables disks although some were requested
SynthEnabled_Always(backup_all, src) ==
    ~virStorageSourceIsEmpty(src) /\ ~src.readonly

\* lines 569-571
SynthEnabled(backup_all, src) ==
    backup_all /\ ~virStorageSourceIsEmpty(src) /\ ~src.readonly

\* lines 559-579: the loop over the domain's disks, from disk i on; ndisks
\* entries of def->disks are in use
RECURSIVE Backfill(_, _, _, _, _, _, _)
BackfillStored(job, domain, suffix, i, ndisks, seen, backup_all, r) ==
    IF r.rc < 0 THEN [ret |-> -1, def |-> [job EXCEPT !.disks[ndisks + 1] = r.disk]]
    ELSE Backfill([job EXCEPT !.disks[ndisks + 1] = r.disk], domain, suffix, i + 1,
                  ndisks + 1, seen, backup_all)

Backfill(job, domain, suffix, i, ndisks, seen, backup_all) ==
    IF i > Len(domain) THEN [ret |-> 0, def |-> job]
    ELSE IF domain[i].dst \in seen
    THEN Backfill(job, domain, suffix, i + 1, ndisks, seen, backup_all)
    ELSE IF SynthEnabled(backup_all, domain[i].src)
    THEN BackfillStored(job, domain, suffix, i, ndisks, seen, backup_all,
             virDomainBackupDefAssignStore(
                 [job.disks[ndisks + 1] EXCEPT !.name = domain[i].dst,
                                               !.backup = VIR_TRISTATE_BOOL_YES],
                 domain[i].src, suffix))
    ELSE Backfill([job EXCEPT !.disks[ndisks + 1] =
                      [@ EXCEPT !.name = domain[i].dst, !.backup = VIR_TRISTATE_BOOL_NO]],
                  domain, suffix, i + 1, ndisks + 1, seen, backup_all)

\* lines 592-594
WithJobIncremental(job, bd) ==
    IF bd.incremental = NULL
         /\ bd.backupmode = VIR_DOMAIN_BACKUP_DISK_BACKUP_MODE_INCREMENTAL
    THEN [bd EXCEPT !.incremental = job.incremental]
    ELSE bd

\* lines 584-590
WithBackupMode(job, bd) ==
    IF bd.backupmode = VIR_DOMAIN_BACKUP_DISK_BACKUP_MODE_DEFAULT
    THEN [bd EXCEPT !.backupmode =
             IF job.incremental # NULL \/ bd.incremental # NULL
             THEN VIR_DOMAIN_BACKUP_DISK_BACKUP_MODE_INCREMENTAL
             ELSE VIR_DOMAIN_BACKUP_DISK_BACKUP_MODE_FULL]
    ELSE bd

\* lines 581-597
ModesSet(r) ==
    IF r.ret < 0 THEN r
    ELSE [ret |-> 0,
          def |-> [r.def EXCEPT !.disks =
                     [j \in 1..Len(r.def.disks) |->
                        WithJobIncremental(r.def, WithBackupMode(r.def, r.def.disks[j]))]]]

\* the names of the first n disks of the job
RequestedNames(job, n) == {job.disks[j].name : j \in 1..n}

\* lines 553-598, r being what the loop over the n requested disks left
Backfilled(r, domain, suffix, n) ==
    IF r.ret < 0 THEN r
    ELSE ModesSet(Backfill([r.def EXCEPT !.disks = VIR_EXPAND_N(@, Len(domain) - n)],
                           domain, suffix, 1, n, RequestedNames(r.def, n), n = 0))

\* virDomainBackupAlignDisks(job, domain, suffix): the return value and job
virDomainBackupAlignDisks(job, domain, suffix) ==
    IF Len(domain) = 0 THEN [ret |-> -1, def |-> job]
    ELSE Backfilled(CheckRequested(job, domain, suffix, 1, {}), domain, suffix, Len(job.disks))

-----------------------------------------------------------------------------
(* A backup job from its document to the job and back: the document is     *)
(* parsed, the job may be aligned to the disks of the domain, the job is   *)
(* formatted, and the document written is parsed (and the job aligned)     *)
(* again.                                                                  *)

MaxDisks == 2       \* disks of the domain, and <disk> elements of a document

Suffix == "bak"     \* the suffix argument of virDomainBackupAlignDisks

\* the target name of the i-th disk of the domain
DiskName(i) == "vd" \o SubSeq("abcdefgh", i, i)

FileSrc(path, readonly) ==
    [virStorageSourceNew EXCEPT !.type = VIR_STORAGE_TYPE_FILE, !.path = path,
                                !.readonly = readonly]

BlockSrc(path) ==
    [virStorageSourceNew EXCEPT !.type = VIR_STORAGE_TYPE_BLOCK, !.path = path]

\* the sources a disk of the domain can have: an image, a read-only image, a
\* drive without media, a block device
DomSrcs(name) ==
    {FileSrc("/img/" \o name, FALSE), FileSrc("/img/" \o name, TRUE),
     FileSrc(NULL, FALSE), BlockSrc("/dev/" \o name)}

\* the same without the read-only image
DomSrcsWritable(name) ==
    {FileSrc("/img/" \o name, FALSE), FileSrc(NULL, FALSE), BlockSrc("/dev/" \o name)}

\* dom->disks with n disks, targets in order, sources drawn by srcs
DomDisks(n, srcs(_)) ==
    {[i \in 1..n |-> [dst |-> DiskName(i), src |-> s[i]]] :
        s \in {t \in [1..n -> UNION {srcs(DiskName(i)) : i \in 1..n}] :
                  \A i \in 1..n : t[i] \in srcs(DiskName(i))}}

Node(name) == [NoDiskNode EXCEPT !.name = name]

FileNode(path) == Ptr([NoSourceNode EXCEPT !.file = path])

DevNode(path) == Ptr([NoSourceNode EXCEPT !.dev = path])

\* <disk> elements of a request: enabled without target, disabled, with a
\* target, incremental without and with a checkpoint name, a block target,
\* a name no disk of the domain has
ReqNodes ==
    {Node(DiskName(1)), Node(DiskName(2)), Node("sdz"),
     [Node(DiskName(1)) EXCEPT !.backup = "no", !.incremental = "cp3"],
     [Node(DiskName(2)) EXCEPT !.backup = "yes", !.type = "file", !.driver = "qcow2",
                               !.target = FileNode("/bak/b"),
                               !.scratch = FileNode("/bak/b")],
     [Node(DiskName(1)) EXCEPT !.backupmode = "incremental"],
     [Node(DiskName(2)) EXCEPT !.backupmode = "incremental", !.incremental = "cp2"],
     [Node(DiskName(1)) EXCEPT !.type = "block", !.backupmode = "full",
                               !.target = DevNode("/dev/bak"),
                               !.scratch = DevNode("/dev/bak")]}

\* <disk> elements for the documents that vary the header: as the status
\* file has them (state, index), with an empty state, and ones that are
\* refused (no name, backup='default', a network store, an unknown mode)
HeaderNodes ==
    {[Node(DiskName(1)) EXCEPT !.state = "running", !.type = "file", !.index = "3",
                               !.exportname = "exp", !.exportbitmap = "bmp",
                               !.incremental = "",
                               !.target = FileNode("/bak/a"),
                               !.scratch = FileNode("/bak/a")],
     [Node(DiskName(1)) EXCEPT !.state = ""],
     [Node(DiskName(1)) EXCEPT !.backup = "no"],
     Node(NULL),
     [Node(DiskName(1)) EXCEPT !.backup = "default"],
     [Node(DiskName(1)) EXCEPT !.type = "network"],
     [Node(DiskName(1)) EXCEPT !.backupmode = "differential"]}

ServerAttrs == [transport |-> NULL, tls |-> NULL, name |-> NULL, port |-> NULL,
                socket |-> NULL]

\* <server> elements: none, tcp, tcp with port and tls, unix with an absolute
\* and with a relative path, rdma, and ones virDomainStorageNetworkParseHost
\* or the tls attribute refuse
Servers ==
    {NullPtr,
     Ptr([ServerAttrs EXCEPT !.name = "localhost"]),
     Ptr([ServerAttrs EXCEPT !.transport = "tcp", !.name = "localhost",
                             !.port = "10809", !.tls = "yes"]),
     Ptr([ServerAttrs EXCEPT !.transport = "tcp", !.name = "localhost",
                             !.port = "0", !.tls = "no"]),
     Ptr([ServerAttrs EXCEPT !.transport = "unix", !.socket = "/run/backup.sock"]),
     Ptr([ServerAttrs EXCEPT !.transport = "unix", !.socket = "backup.sock"]),
     Ptr([ServerAttrs EXCEPT !.transport = "unix", !.socket = ""]),
     Ptr([ServerAttrs EXCEPT !.transport = "rdma", !.name = "localhost"]),
     Ptr([ServerAttrs EXCEPT !.transport = "tcp"]),
     Ptr([ServerAttrs EXCEPT !.name = "localhost", !.tls = "default"])}

Modes == {NULL, "default", "push", "pull", "full"}

Document(mode, incremental, server, disks) ==
    [mode |-> mode, incremental |-> incremental, server |-> server, disks |-> disks,
     tlsSecretAlias |-> NULL, tlsAlias |-> NULL]

\* documents that vary the header, for a domain with one disk
HeaderInputs ==
    {[doc |-> Document(m, inc, srv, disks), flags |-> f, dom |-> d] :
        m \in Modes, inc \in {NULL, "cp1"}, srv \in Servers,
        disks \in {<<>>} \cup {<<n>> : n \in HeaderNodes},
        f \in BOOLEAN, d \in DomDisks(1, DomSrcsWritable)}

\* documents without <disk> elements, for every domain
BackfillInputs ==
    {[doc |-> Document(m, inc, NullPtr, <<>>), flags |-> FALSE, dom |-> d] :
        m \in {"push", "pull"}, inc \in {NULL, "cp1"},
        d \in UNION {DomDisks(n, DomSrcs) : n \in 0..MaxDisks}}

\* documents that request disks, for every domain without read-only disks
RequestInputs ==
    {[doc |-> Document("push", inc, NullPtr, disks), flags |-> FALSE, dom |-> d] :
        inc \in {NULL, "cp1"},
        disks \in UNION {[1..n -> ReqNodes] : n \in 1..MaxDisks},
        d \in UNION {DomDisks(n, DomSrcsWritable) : n \in 0..MaxDisks}}

InitBackup ==
    /\ \E inp \in HeaderInputs \cup BackfillInputs \cup RequestInputs :
          /\ xmlDoc = inp.doc
          /\ flags = inp.flags
          /\ dom = inp.dom
    /\ backup = NullPtr
    /\ bpc = "start"
    /\ alignRet = 0
    /\ preAlign = NullPtr
    /\ buf = NoDocument
    /\ first = NullPtr
    /\ aligned = FALSE
    /\ NoAliases
    /\ probe = NoProbe
    /\ NoDnsmasq
    /\ NoUtil

\* def = virDomainBackupDefParseString(xmlDoc, xmlopt, flags)
ParseString ==
    /\ bpc = "start"
    /\ backup' = virDomainBackupDefParse(xmlDoc, flags)
    /\ bpc' = IF backup' = NullPtr THEN "rejected" ELSE "parsed"
    /\ UNCHANGED <<xmlDoc, flags, dom, alignRet, preAlign, buf, first, aligned>>
    /\ UNCHANGED <<aliasVars, indexVars, dnsmasqVars, utilVars>>

\* what a call of virDomainBackupAlignDisks leaves: its return value and the
\* job, which it changes in place
AfterAlign(r, ok, failed) ==
    /\ backup' = Ptr(r.def)
    /\ alignRet' = r.ret
    /\ preAlign' = backup
    /\ bpc' = IF r.ret < 0 THEN failed ELSE ok
    /\ UNCHANGED <<xmlDoc, flags, dom, buf, first, aligned>>
    /\ UNCHANGED <<aliasVars, indexVars, dnsmasqVars, utilVars>>

\* virDomainBackupAlignDisks(def, vm->def, suffix) on the parsed job
AlignDisks ==
    /\ bpc = "parsed"
    /\ AfterAlign(virDomainBackupAlignDisks(Deref(backup), dom, Suffix),
                  "aligned", "align-failed")

\* virDomainBackupDefFormat(buf, def, internal); the document is then read
\* with the flags it was written with
Format ==
    /\ bpc \in {"parsed", "aligned"}
    /\ \E internal \in BOOLEAN :
          /\ buf' = virDomainBackupDefFormat(Deref(backup), internal)
          /\ flags' = internal
    /\ first' = backup
    /\ aligned' = (bpc = "aligned")
    /\ bpc' = "formatted"
    /\ UNCHANGED <<xmlDoc, dom, backup, alignRet, preAlign>>
    /\ UNCHANGED <<aliasVars, indexVars, dnsmasqVars, utilVars>>

\* def = virDomainBackupDefParseString(buf, xmlopt, flags)
ReParse ==
    /\ bpc = "formatted"
    /\ backup' = virDomainBackupDefParse(buf, flags)
    /\ bpc' = IF backup' = NullPtr THEN "reparse-failed" ELSE "reparsed"
    /\ UNCHANGED <<xmlDoc, flags, dom, alignRet, preAlign, buf, first, aligned>>
    /\ UNCHANGED <<aliasVars, indexVars, dnsmasqVars, utilVars>>

\* virDomainBackupAlignDisks on the job parsed from the document written
ReAlign ==
    /\ bpc = "reparsed"
    /\ aligned
    /\ AfterAlign(virDomainBackupAlignDisks(Deref(backup), dom, Suffix),
                  "realigned", "realign-failed")

NextBackup ==
    \/ ParseString
    \/ AlignDisks
    \/ Format
    \/ ReParse
    \/ ReAlign

SpecBackup == InitBackup /\ [][NextBackup]_vars

-----------------------------------------------------------------------------
(* Saving the dnsmasq host files (src/util/virdnsmasq.c): hostsfileWrite    *)
(* and addnhostsWrite.  Each library call that touches the file system is   *)
(* one step, so that a reader of the file can run between any two of them.  *)

\* dnsmasqDhcpHost: one line of the hostsfile
DhcpHost(host) == [host |-> host]

\* dnsmasqAddnHost: one address and its names
AddnHost(ip, hostnames) == [ip |-> ip, hostnames |-> hostnames]

RECURSIVE Concat(_)
Concat(strs) == IF strs = <<>> THEN "" ELSE Head(strs) \o Concat(Tail(strs))

RECURSIVE TabEach(_)
\* lines 190-200: every hostname of an entry is followed by a tab
TabEach(names) ==
    IF names = <<>> THEN <<>> ELSE <<Head(names), "\t">> \o TabEach(Tail(names))

\* the strings the loop body hands to fputs and fputc for one entry, in the
\* order of the calls: line 377 (hostsfile), lines 180-210 (addnhosts)
Puts(kind, h) ==
    IF kind = "hostsfile"
        THEN <<h.host, "\n">>
        ELSE <<h.ip, "\t">> \o TabEach(h.hostnames) \o <<"\n">>

RECURSIVE Contents(_, _)
\* what a run of the whole loop writes
Contents(kind, hosts) ==
    IF hosts = <<>> THEN ""
    ELSE Concat(Puts(kind, Head(hosts))) \o Contents(kind, Tail(hosts))

\* the bytes of the stream that stdio has not handed to the file yet reach it
WithPending(fs, s) ==
    IF s.file = "none" THEN fs
    ELSE [fs EXCEPT ![s.file] = FileOf(fs[s.file].data \o s.pending)]

\* unlink(tmp)
Unlinked(fs) == [fs EXCEPT !.tmp = NoFile]

\* rename(tmp, path)
Renamed(fs) == [fs EXCEPT !.path = fs.tmp, !.tmp = NoFile]

MaxHosts == 2

DhcpHosts == {DhcpHost("52:54:00:00:00:01,192.168.122.10"), DhcpHost("id:*,192.168.122.11")}

AddnHosts == {AddnHost("192.168.122.1", <<"gw">>), AddnHost("192.168.122.2", <<"a", "b">>)}

\* what the target path names before the call
OldFiles == {NoFile, FileOf(""), FileOf("192.168.122.9\told\t\n")}

InitDnsmasq ==
    /\ \E old \in OldFiles :
          /\ files = [path |-> old, tmp |-> NoFile]
          /\ oldFile = old
    /\ \E n \in 0..MaxHosts :
          \/ \E hosts \in [1..n -> DhcpHosts] : wjob = [kind |-> "hostsfile", hosts |-> hosts]
          \/ \E hosts \in [1..n -> AddnHosts] : wjob = [kind |-> "addnhosts", hosts |-> hosts]
    /\ stream = NoStream
    /\ wpc = "fopen-tmp"
    /\ istmp = TRUE
    /\ wrc = 0
    /\ nwritten = 0
    /\ reading = NoReading
    /\ calls = <<>>
    /\ NoAliases
    /\ probe = NoProbe
    /\ NoBackup
    /\ NoUtil

\* lines 171-172, 368-369: fopen(tmp, "w") creates or empties "<path>.new";
\* when it fails, istmp = false and the target itself is opened next
FopenTmp ==
    /\ wpc = "fopen-tmp"
    /\ \E ok \in BOOLEAN :
          IF ok
             THEN /\ files' = [files EXCEPT !.tmp = FileOf("")]
                  /\ stream' = [open |-> TRUE, file |-> "tmp", pending |-> ""]
                  /\ wpc' = "loop"
                  /\ UNCHANGED istmp
             ELSE /\ istmp' = FALSE
                  /\ wpc' = "fopen-path"
                  /\ UNCHANGED <<files, stream>>
    /\ calls' = Append(calls, [call |-> "fopen-tmp", ok |-> wpc' = "loop"])
    /\ UNCHANGED <<wrc, nwritten, wjob, oldFile, reading>>
    /\ UNCHANGED <<aliasVars, indexVars, backupVars, utilVars>>

\* lines 173-176, 370-373: fopen(path, "w") creates or empties the target
\* itself, or fails: rc = -errno; goto cleanup
FopenPath ==
    /\ wpc = "fopen-path"
    /\ \E ok \in BOOLEAN :
          IF ok
             THEN /\ files' = [files EXCEPT !.path = FileOf("")]
                  /\ stream' = [open |-> TRUE, file |-> "path", pending |-> ""]
                  /\ wpc' = "loop"
                  /\ UNCHANGED wrc
             ELSE /\ wrc' = -1
                  /\ wpc' = "returned"
                  /\ UNCHANGED <<files, stream>>
    /\ calls' = Append(calls, [call |-> "fopen-path", ok |-> wpc' = "loop"])
    /\ UNCHANGED <<istmp, nwritten, wjob, oldFile, reading>>
    /\ UNCHANGED <<aliasVars, indexVars, backupVars, utilVars>>

\* lines 179-211, 376-385: the body of the loop for the next entry: every fputs and fputc succeeds,
\* and stdio keeps the bytes or hands them to the file
PutEntry ==
    /\ wpc = "loop"
    /\ nwritten < Len(wjob.hosts)
    /\ \E flush \in BOOLEAN :
          LET s == [stream EXCEPT !.pending =
                       @ \o Concat(Puts(wjob.kind, wjob.hosts[nwritten + 1]))]
          IN  IF flush
                 THEN /\ files' = WithPending(files, s)
                      /\ stream' = [s EXCEPT !.pending = ""]
                 ELSE /\ stream' = s
                      /\ UNCHANGED files
    /\ nwritten' = nwritten + 1
    /\ calls' = Append(calls, [call |-> "write", ok |-> TRUE])
    /\ UNCHANGED <<wpc, istmp, wrc, wjob, oldFile, reading>>
    /\ UNCHANGED <<aliasVars, indexVars, backupVars, utilVars>>

\* the body of the loop when its k-th fputs or fputc returns EOF: rc = -errno,
\* VIR_FORCE_FCLOSE(f), if (istmp) unlink(tmp), goto cleanup
PutFails ==
    /\ wpc = "loop"
    /\ nwritten < Len(wjob.hosts)
    /\ \E k \in 1..Len(Puts(wjob.kind, wjob.hosts[nwritten + 1])) :
          LET s == [stream EXCEPT !.pending =
                       @ \o Concat(SubSeq(Puts(wjob.kind, wjob.hosts[nwritten + 1]), 1, k - 1))]
          IN  files' = IF istmp THEN Unlinked(WithPending(files, s))
                                ELSE WithPending(files, s)
    /\ stream' = NoStream
    /\ wrc' = -1
    /\ wpc' = "returned"
    /\ calls' = Append(calls, [call |-> "write", ok |-> FALSE])
    /\ UNCHANGED <<istmp, nwritten, wjob, oldFile, reading>>
    /\ UNCHANGED <<aliasVars, indexVars, backupVars, utilVars>>

\* lines 213-216, 387-390: VIR_FCLOSE(f) hands the pending bytes to the file;
\* when it returns EOF they may be lost: rc = -errno; goto cleanup
Fclose ==
    /\ wpc = "loop"
    /\ nwritten = Len(wjob.hosts)
    /\ \E ok \in BOOLEAN :
          IF ok
             THEN /\ files' = WithPending(files, stream)
                  /\ wpc' = "rename"
                  /\ UNCHANGED wrc
             ELSE /\ files' \in {files, WithPending(files, stream)}
                  /\ wrc' = -1
                  /\ wpc' = "returned"
    /\ stream' = NoStream
    /\ calls' = Append(calls, [call |-> "fclose", ok |-> wpc' = "rename"])
    /\ UNCHANGED <<istmp, nwritten, wjob, oldFile, reading>>
    /\ UNCHANGED <<aliasVars, indexVars, backupVars, utilVars>>

\* a rename that is attempted whatever istmp is
Rename_Always ==
    /\ wpc = "rename"
    /\ \E ok \in BOOLEAN :
          IF ok
             THEN /\ files' = Renamed(files)
                  /\ calls' = Append(calls, [call |-> "rename", ok |-> TRUE])
                  /\ UNCHANGED wrc
             ELSE /\ files' = Unlinked(files)
                  /\ calls' = Append(calls, [call |-> "rename", ok |-> FALSE])
                  /\ wrc' = -1
    /\ wpc' = "returned"
    /\ UNCHANGED <<stream, istmp, nwritten, wjob, oldFile, reading>>
    /\ UNCHANGED <<aliasVars, indexVars, backupVars, utilVars>>

\* lines 218-222, 392-396: if (istmp && rename(tmp, path) < 0)
\* { rc = -errno; unlink(tmp); goto cleanup; }
Rename ==
    /\ wpc = "rename"
    /\ IF istmp
          THEN \E ok \in BOOLEAN :
                  IF ok
                     THEN /\ files' = Renamed(files)
                          /\ calls' = Append(calls, [call |-> "rename", ok |-> TRUE])
                          /\ UNCHANGED wrc
                     ELSE /\ files' = Unlinked(files)
                          /\ calls' = Append(calls, [call |-> "rename", ok |-> FALSE])
                          /\ wrc' = -1
          ELSE UNCHANGED <<files, wrc, calls>>
    /\ wpc' = "returned"
    /\ UNCHANGED <<stream, istmp, nwritten, wjob, oldFile, reading>>
    /\ UNCHANGED <<aliasVars, indexVars, backupVars, utilVars>>

\* another process (dnsmasq after SIGHUP, or any reader) opens the target
\* and reads all of it while the call is running
ReadTarget ==
    /\ wpc \notin {"none", "fopen-tmp", "returned"}
    /\ reading' = [done |-> TRUE, file |-> files.path]
    /\ UNCHANGED <<files, stream, wpc, istmp, wrc, nwritten, wjob, oldFile, calls>>
    /\ UNCHANGED <<aliasVars, indexVars, backupVars, utilVars>>

NextDnsmasq ==
    \/ FopenTmp
    \/ FopenPath
    \/ PutEntry
    \/ PutFails
    \/ Fclose
    \/ Rename
    \/ ReadTarget

SpecDnsmasq == InitDnsmasq /\ [][NextDnsmasq]_vars

-----------------------------------------------------------------------------
(* dnsmasqDelete (src/util/virdnsmasq.c), one step per genericFileDelete.   *)
(* A context made by dnsmasqContextNew always has both files.               *)

\* genericFileDelete(path) on what the path names; removable says whether
\* unlink succeeds.  Yields the return value, the file afterwards and what
\* was done.
genericFileDelete(file, removable) ==
    IF ~file.exists THEN [ret |-> 0, file |-> file, did |-> "absent"]
    ELSE IF ~removable THEN [ret |-> -1, file |-> file, did |-> "failed"]
    ELSE [ret |-> 0, file |-> NoFile, did |-> "removed"]

\* the files a context can have saved
SavedFiles(kind, pool) ==
    {NoFile} \cup {FileOf(Contents(kind, hosts)) :
                     hosts \in UNION {[1..n -> pool] : n \in 0..MaxHosts}}

InitDelete ==
    /\ \E h \in SavedFiles("hostsfile", DhcpHosts), a \in SavedFiles("addnhosts", AddnHosts) :
          ctxFiles = [hostsfile |-> h, addnhostsfile |-> a]
    /\ ctxFiles0 = ctxFiles
    /\ dpc = "hostsfile"
    /\ dret = 0
    /\ unlinks = [hostsfile |-> "none", addnhostsfile |-> "none"]
    /\ NoAliases
    /\ probe = NoProbe
    /\ NoBackup
    /\ NoDnsmasq
    /\ NoCaps
    /\ NoXml

\* ret = genericFileDelete(ctx-><which>->path);
AfterDelete(which, r, to) ==
    /\ dret' = r.ret
    /\ ctxFiles' = [ctxFiles EXCEPT ![which] = r.file]
    /\ unlinks' = [unlinks EXCEPT ![which] = r.did]
    /\ dpc' = to
    /\ UNCHANGED ctxFiles0
    /\ UNCHANGED <<aliasVars, indexVars, backupVars, dnsmasqVars, capsVars, xmlVars>>

\* if (ctx->hostsfile) ret = genericFileDelete(ctx->hostsfile->path);
DeleteHostsfile ==
    /\ dpc = "hostsfile"
    /\ \E removable \in BOOLEAN :
          AfterDelete("hostsfile", genericFileDelete(ctxFiles.hostsfile, removable),
                      "addnhostsfile")

\* if (ctx->addnhostsfile) ret = genericFileDelete(ctx->addnhostsfile->path);
\* return ret;
DeleteAddnhostsfile ==
    /\ dpc = "addnhostsfile"
    /\ \E removable \in BOOLEAN :
          AfterDelete("addnhostsfile", genericFileDelete(ctxFiles.addnhostsfile, removable),
                      "returned")

NextDelete ==
    \/ DeleteHostsfile
    \/ DeleteAddnhostsfile

SpecDelete == InitDelete /\ [][NextDelete]_vars

-----------------------------------------------------------------------------
(* The dnsmasq capabilities cache (src/util/virdnsmasq.c).  What running    *)
(* the binary prints is kept as what dnsmasqCapsSetFromBuffer reads from    *)
(* it: whether the version parses, the version, the options found.          *)

MaxMtime == 2

\* dnsmasqCapsNewEmpty: a zeroed object with an empty bitmap
dnsmasqCapsNewEmpty == [noRefresh |-> FALSE, mtime |-> 0, version |-> 0, flags |-> {}]

\* dnsmasqCapsSetFromBuffer(c, text): the return value and the object
dnsmasqCapsSetFromBuffer(c, text) ==
    IF ~text.parses THEN [ret |-> -1, caps |-> [c EXCEPT !.noRefresh = TRUE]]
    ELSE [ret |-> 0,
          caps |-> [c EXCEPT !.noRefresh = TRUE, !.version = text.version,
                             !.flags = @ \cup text.flags]]

\* lines 713-741, with caps->mtime already set: the two commands are run
\* when the binary is executable, and their output is read
Probe(c, bin) ==
    IF ~bin.executable THEN [ret |-> -1, caps |-> c, probed |-> FALSE]
    ELSE IF ~bin.runs THEN [ret |-> -1, caps |-> c, probed |-> TRUE]
    ELSE [ret |-> dnsmasqCapsSetFromBuffer(c, bin.out).ret,
          caps |-> dnsmasqCapsSetFromBuffer(c, bin.out).caps,
          probed |-> TRUE]

\* dnsmasqCapsRefreshInternal(c, force) for an object c, with the binary as
\* it is on disk: the return value, the object, whether the binary was run
dnsmasqCapsRefreshInternal(c, force, bin) ==
    IF c.noRefresh THEN [ret |-> 0, caps |-> c, probed |-> FALSE]
    ELSE IF ~bin.exists THEN [ret |-> -1, caps |-> c, probed |-> FALSE]
    ELSE IF ~force /\ c.mtime = bin.mtime THEN [ret |-> 0, caps |-> c, probed |-> FALSE]
    ELSE Probe([c EXCEPT !.mtime = bin.mtime], bin)

\* dnsmasqCapsNewFromBinary: the object is dropped when the probe fails
dnsmasqCapsNewFromBinary(bin) ==
    IF dnsmasqCapsRefreshInternal(dnsmasqCapsNewEmpty, TRUE, bin).ret < 0
    THEN [ret |-> -1, caps |-> NullPtr,
          probed |-> dnsmasqCapsRefreshInternal(dnsmasqCapsNewEmpty, TRUE, bin).probed]
    ELSE [ret |-> 0,
          caps |-> Ptr(dnsmasqCapsRefreshInternal(dnsmasqCapsNewEmpty, TRUE, bin).caps),
          probed |-> dnsmasqCapsRefreshInternal(dnsmasqCapsNewEmpty, TRUE, bin).probed]

\* dnsmasqCapsRefresh(&caps, binaryPath)
dnsmasqCapsRefresh(capsPtr, bin) ==
    IF capsPtr = NullPtr THEN dnsmasqCapsNewFromBinary(bin)
    ELSE [ret |-> dnsmasqCapsRefreshInternal(Deref(capsPtr), FALSE, bin).ret,
          caps |-> Ptr(dnsmasqCapsRefreshInternal(Deref(capsPtr), FALSE, bin).caps),
          probed |-> dnsmasqCapsRefreshInternal(Deref(capsPtr), FALSE, bin).probed]

\* what the binary can print: nothing that parses, or one of two versions
Outputs ==
    {[parses |-> FALSE, version |-> 0, flags |-> {}],
     [parses |-> TRUE, version |-> 2067000, flags |-> {"bind-dynamic"}],
     [parses |-> TRUE, version |-> 2080000, flags |-> {"bind-dynamic", "ra-param"}]}

\* the binaries that can be on disk with modification time t
Binaries(t) ==
    {[exists |-> TRUE, mtime |-> t, executable |-> x, runs |-> r, out |-> o] :
        x \in BOOLEAN, r \in BOOLEAN, o \in Outputs}

InitCaps ==
    /\ dcaps = NullPtr
    /\ binary \in Binaries(1)
    /\ cpc = "idle"
    /\ capsRet = 0
    /\ lastRefresh = NoRefresh
    /\ okMtime = 0
    /\ NoAliases
    /\ probe = NoProbe
    /\ NoBackup
    /\ NoDnsmasq
    /\ NoDelete
    /\ NoXml

\* a call of dnsmasqCapsRefresh
CapsRefresh ==
    /\ dcaps' = dnsmasqCapsRefresh(dcaps, binary).caps
    /\ capsRet' = dnsmasqCapsRefresh(dcaps, binary).ret
    /\ lastRefresh' = [existing |-> dcaps # NullPtr,
                       probed |-> dnsmasqCapsRefresh(dcaps, binary).probed,
                       okMtime |-> okMtime]
    /\ okMtime' = IF dnsmasqCapsRefresh(dcaps, binary).probed /\ capsRet' = 0
                  THEN binary.mtime ELSE okMtime
    /\ cpc' = "returned"
    /\ UNCHANGED binary
    /\ UNCHANGED <<aliasVars, indexVars, backupVars, dnsmasqVars, deleteVars, xmlVars>>

\* the binary is replaced or its mode changed (a package update): it gets a
\* later modification time
BinaryChanges ==
    /\ binary.mtime < MaxMtime
    /\ binary' \in Binaries(binary.mtime + 1)
    /\ cpc' = "idle"
    /\ UNCHANGED <<dcaps, capsRet, lastRefresh, okMtime>>
    /\ UNCHANGED <<aliasVars, indexVars, backupVars, dnsmasqVars, deleteVars, xmlVars>>

NextCaps ==
    \/ CapsRefresh
    \/ BinaryChanges

SpecCaps == InitCaps /\ [][NextCaps]_vars

-----------------------------------------------------------------------------
(* virXMLNodeSanitizeNamespaces (src/util/virxml.c).  The children of the   *)
(* node are a list of [id, ns]: id tells the child nodes apart, ns is the   *)
(* xmlNsPtr of the child, NULL or a namespace whose href is NULL or a URI.  *)

MaxChildren == 3

\* the xmlNsPtr values a child can have
Namespaces ==
    {NullPtr, Ptr([href |-> NullPtr]), Ptr([href |-> Ptr("urn:a")]),
     Ptr([href |-> Ptr("urn:b")])}

\* the child lists of up to MaxChildren children
ChildLists ==
    UNION {{[i \in 1..n |-> [id |-> i, ns |-> f[i]]] : f \in [1..n -> Namespaces]} :
              n \in 0..MaxChildren}

\* node->children: the first child, 0 for NULL
FirstChild(l) == IF l = <<>> THEN 0 ELSE l[1].id

\* the child of the list that a pointer points to
ChildAt(l, p) == CHOOSE c \in {l[i] : i \in 1..Len(l)} : c.id = p

\* p->next in the list: the child after p, 0 for NULL
NextSibling(l, p) ==
    IF \E i \in 1..(Len(l) - 1) : l[i].id = p
    THEN l[(CHOOSE i \in 1..(Len(l) - 1) : l[i].id = p) + 1].id
    ELSE 0

\* xmlUnlinkNode(p); xmlFreeNode(p)
Unlink(l, p) == SelectSeq(l, LAMBDA c : c.id # p)

\* !child->ns || !child->ns->href
NoNamespace(c) == c.ns = NullPtr \/ Deref(c.ns).href = NullPtr

\* STREQ_NULLABLE(a, b) on two char pointers
STREQ_NULLABLE(a, b) ==
    IF a = NullPtr \/ b = NullPtr THEN a = NullPtr /\ b = NullPtr
    ELSE Deref(a) = Deref(b)

\* a comparison that never finds two children alike
SharesNamespace_Never(c, n) == FALSE

\* child->ns && next->ns && STREQ_NULLABLE(child->ns->href, next->ns->href)
SharesNamespace(c, n) ==
    /\ c.ns # NullPtr
    /\ n.ns # NullPtr
    /\ STREQ_NULLABLE(Deref(c.ns).href, Deref(n.ns).href)

InitSanitize ==
    /\ xnode \in {NullPtr} \cup {Ptr(l) : l \in ChildLists}
    /\ xorig = xnode
    /\ xchild = 0
    /\ xnext = 0
    /\ xpc = "call"
    /\ NoAliases
    /\ probe = NoProbe
    /\ NoBackup
    /\ NoDnsmasq
    /\ NoDelete
    /\ NoCaps

\* if (!node) return; child = node->children;
SanitizeEnter ==
    /\ xpc = "call"
    /\ IF xnode = NullPtr
       THEN xpc' = "done" /\ UNCHANGED xchild
       ELSE xpc' = "outer" /\ xchild' = FirstChild(Deref(xnode))
    /\ UNCHANGED <<xnode, xnext, xorig>>
    /\ UNCHANGED <<aliasVars, indexVars, backupVars, dnsmasqVars, deleteVars, capsVars>>

\* one test of while (child), with the body up to the inner loop
OuterStep ==
    /\ xpc = "outer"
    /\ IF xchild = 0
       THEN xpc' = "done" /\ UNCHANGED <<xnode, xchild, xnext>>
       ELSE IF NoNamespace(ChildAt(Deref(xnode), xchild))
       THEN /\ xchild' = NextSibling(Deref(xnode), xchild)
            /\ xnode' = Ptr(Unlink(Deref(xnode), xchild))
            /\ UNCHANGED <<xpc, xnext>>
       ELSE /\ xnext' = NextSibling(Deref(xnode), xchild)
            /\ xpc' = "inner"
            /\ UNCHANGED <<xnode, xchild>>
    /\ UNCHANGED xorig
    /\ UNCHANGED <<aliasVars, indexVars, backupVars, dnsmasqVars, deleteVars, capsVars>>

\* one test of while (next), with its body; child = child->next at its end
InnerStep ==
    /\ xpc = "inner"
    /\ IF xnext = 0
       THEN /\ xchild' = NextSibling(Deref(xnode), xchild)
            /\ xpc' = "outer"
            /\ UNCHANGED <<xnode, xnext>>
       ELSE /\ xnext' = NextSibling(Deref(xnode), xnext)
            /\ xnode' = IF SharesNamespace(ChildAt(Deref(xnode), xchild),
                                           ChildAt(Deref(xnode), xnext))
                        THEN Ptr(Unlink(Deref(xnode), xnext))
                        ELSE xnode
            /\ UNCHANGED <<xpc, xchild>>
    /\ UNCHANGED xorig
    /\ UNCHANGED <<aliasVars, indexVars, backupVars, dnsmasqVars, deleteVars, capsVars>>

NextSanitize ==
    \/ SanitizeEnter
    \/ OuterStep
    \/ InnerStep

SpecSanitize == InitSanitize /\ [][NextSanitize]_vars

\* the function is run to its end: no step of it is put off for ever
SpecSanitizeFair == SpecSanitize /\ WF_vars(NextSanitize)

-----------------------------------------------------------------------------
(* What the properties below speak of *)

\* pos comes before the device the pass is at, in the order of the loops
Before(pos, loop, i) ==
    \/ LoopIndex(pos[1]) < LoopIndex(loop)
    \/ pos[1] = loop /\ pos[2] < i

Returned(r) == pc.loop = "done" /\ ret = r

\* the alias the target of the last assigner call had when the call was made
LastAliasBefore ==
    IF last.loop = "hostdevs" THEN HostdevInfo(pre, last.dev).alias ELSE last.dev.alias

-----------------------------------------------------------------------------
(* C1: idempotence *)

\* C1: a device whose alias is set keeps exactly that alias through every
\* step of qemuAssignDeviceAliases and through every direct call of an
\* assigner, whatever the index argument; and a second run of
\* qemuAssignDeviceAliases changes no alias at all.
C1_Idempotence ==
    /\ [][\A pos \in Positions(def) :
             AliasAt(def, pos) # NULL => AliasAt(def', pos) = AliasAt(def, pos)]_vars
    /\ [](rerun => \A pos \in Positions(def) : AliasAt(def, pos) = AliasAt(def0, pos))

\* an assigner was called with an explicit index on a device that had an alias
C1_Witness ==
    /\ last.how \in {"pass", "call"}
    /\ last.i > 0
    /\ last.idx >= 0
    /\ LastAliasBefore # NULL
    /\ last.ret = 0
    /\ last.alias = LastAliasBefore

-----------------------------------------------------------------------------
(* C2: total coverage *)

\* C2 as stated: after qemuAssignDeviceAliases has returned 0 every device of
\* the definition has an alias.
C2_Original ==
    Returned(0) => \A pos \in Positions(def) : AliasAt(def, pos) # NULL

PassedOver(d, pos) == pos[1] = "memballoon" /\ d.memballoon[pos[2]].model = "none"

\* C2 amended: after qemuAssignDeviceAliases has returned 0 every device of
\* the definition has an alias, except a memory balloon of model none, which
\* the pass does not visit and whose alias is as it was.
C2_Coverage ==
    Returned(0) =>
        \A pos \in Positions(def) :
            IF PassedOver(def, pos) THEN AliasAt(def, pos) = AliasAt(def0, pos)
            ELSE AliasAt(def, pos) # NULL

\* a first run has returned 0 and gave more than one device its alias
C2_Witness ==
    /\ Returned(0)
    /\ ~rerun
    /\ Cardinality({pos \in Positions(def) :
                       AliasAt(def0, pos) = NULL /\ AliasAt(def, pos) # NULL}) >= MaxDevs

-----------------------------------------------------------------------------
(* C3: global uniqueness *)

\* C3: after qemuAssignDeviceAliases has returned 0 no two devices of the
\* definition have the same alias.
C3_Unique ==
    Returned(0) =>
        \A p, q \in {pos \in Positions(def) : OwnsInfo(def, pos)} :
            (p # q /\ AliasAt(def, p) # NULL) => AliasAt(def, p) # AliasAt(def, q)

-----------------------------------------------------------------------------
(* Scanning, as the specification states it *)

\* the largest numeric suffix an alias of the model can carry
MaxSuffix == MaxIdx + MaxDevs + 2

\* the k for which some info carries the alias <prefix><k>, for a prefix of the set
UsedIdx(infos, prefixes) ==
    {k \in 0..MaxSuffix :
        \E j \in 1..Len(infos), p \in prefixes : infos[j].alias = p \o FmtInt(k)}

Largest(S) == CHOOSE k \in S : \A m \in S : m <= k

\* highest seen + 1, and 0 when nothing is seen
HighestPlusOne(infos, prefixes) ==
    IF UsedIdx(infos, prefixes) = {} THEN 0 ELSE Largest(UsedIdx(infos, prefixes)) + 1

\* the smallest index that is not in use
LowestFree(infos, prefixes) ==
    CHOOSE k \in 0..(MaxSuffix + 1) :
        /\ k \notin UsedIdx(infos, prefixes)
        /\ \A m \in 0..(k - 1) : m \in UsedIdx(infos, prefixes)

\* the last assigner call had a device without alias to name
Named == last.how \in {"pass", "call"} /\ LastAliasBefore = NULL /\ last.ret = 0

HostdevNamespace(d) == HostdevInfos(d) \o d.nets

-----------------------------------------------------------------------------
(* C4: scavenging is highest seen + 1 *)

-----------------------------------------------------------------------------
(* C5: the suffix a scanning assigner gives *)

ChrLoops == {"parallels", "serials", "channels", "consoles"}

MemPrefix(model) ==
    CASE model = "dimm" -> "dimm"
      [] model = "nvdimm" -> "nvdimm"
      [] model = "virtio-pmem" -> "virtiopmem"
      [] OTHER -> "?"

\* the last call took its index from the aliases in use
Scanning ==
    /\ Named
    /\ \/ last.loop \in {"hostdevs", "redirdevs", "shmems", "inputs"} \cup ChrLoops
          /\ last.idx = -1
       \/ last.loop = "nets" /\ (last.idx = -1 \/ last.dev.type = "hostdev")
       \/ last.loop = "rngs"
       \/ last.loop = "mems" /\ (last.idx = -1 \/ last.dev.model = "virtio-pmem")

\* the prefix it gave, the prefixes it scanned for and the infos it scanned
ScanPrefix ==
    CASE last.loop = "nets" -> IF last.dev.type = "hostdev" THEN "hostdev" ELSE "net"
      [] last.loop = "hostdevs" -> "hostdev"
      [] last.loop = "redirdevs" -> "redir"
      [] last.loop = "shmems" -> "shmem"
      [] last.loop = "inputs" -> "input"
      [] last.loop = "rngs" -> "rng"
      [] last.loop = "mems" -> MemPrefix(last.dev.model)
      [] last.loop \in ChrLoops -> last.dev.deviceType
      [] OTHER -> "?"

ScanPrefixes ==
    IF last.loop = "consoles" THEN {"console", "serial"} ELSE {ScanPrefix}

ScanInfos ==
    IF ScanPrefix = "hostdev" THEN HostdevNamespace(pre) ELSE pre[last.loop]

-----------------------------------------------------------------------------
(* C6: interfaces and host devices share the hostdev<N> names *)

\* C6: the pass reaches the host devices only when every interface has its
\* alias; an interface of type hostdev is named hostdev<N> from the scan of
\* host devices and interfaces, whatever index the caller passed; a host
\* device named by the pass gets an index above every hostdev<k> an
\* interface or host device holds; and in a definition without aliases the
\* hostdev<N> names the pass gives are pairwise distinct.
C6_SharedNamespace ==
    /\ pc.loop = "hostdevs" => \A i \in 1..Len(def.nets) : def.nets[i].alias # NULL
    /\ (Named /\ last.loop = "nets" /\ last.dev.type = "hostdev")
          => last.alias =
                "hostdev" \o FmtInt(HighestPlusOne(HostdevNamespace(pre), {"hostdev"}))
    /\ (Named /\ last.loop = "hostdevs" /\ last.how = "pass")
          => \E n \in 0..(MaxSuffix + 1) :
                /\ last.alias = "hostdev" \o FmtInt(n)
                /\ \A k \in UsedIdx(HostdevNamespace(pre), {"hostdev"}) : n > k
    /\ (last.how # "call" /\ \A pos \in Positions(def0) : AliasAt(def0, pos) = NULL)
          => \A p, q \in {pos \in Positions(def) :
                             pos[1] \in {"nets", "hostdevs"} /\ OwnsInfo(def, pos)} :
                (p # q /\ STRPREFIX(AliasAt(def, p), "hostdev"))
                    => AliasAt(def, p) # AliasAt(def, q)

\* the pass named a host device after an interface of type hostdev
C6_Witness ==
    /\ Named
    /\ last.loop = "hostdevs"
    /\ last.how = "pass"
    /\ \A pos \in Positions(def0) : AliasAt(def0, pos) = NULL
    /\ \E i \in 1..Len(pre.nets) : pre.nets[i].alias = "hostdev0"
    /\ last.alias = "hostdev1"

-----------------------------------------------------------------------------
(* C7: the alias of a PCI controller *)

\* C7: a PCI controller without alias gets "pci" when the backend has no
\* multi-bus support, whatever its index and model; with multi-bus support
\* it gets "pcie.<idx>" when its model is pcie-root and "pci.<idx>"
\* otherwise, idx being the controller's own index.
C7_PCIController ==
    (Named /\ last.loop = "controllers" /\ last.dev.type = "pci") =>
        last.alias =
            IF ~qemuCaps.multibus THEN "pci"
            ELSE IF last.dev.model = "pcie-root" THEN "pcie." \o FmtInt(last.dev.idx)
            ELSE "pci." \o FmtInt(last.dev.idx)

\* a PCI bridge of index above 0 named on a backend without multi-bus support
C7_Witness ==
    /\ Named
    /\ last.loop = "controllers"
    /\ last.dev.type = "pci"
    /\ last.dev.model = "pci-bridge"
    /\ last.dev.idx = MaxIdx
    /\ ~qemuCaps.multibus
    /\ last.alias = "pci"

-----------------------------------------------------------------------------
(* C8: the alias of a disk with a drive address *)

Dashed(ns) ==
    IF Len(ns) = 3
    THEN FmtInt(ns[1]) \o "-" \o FmtInt(ns[2]) \o "-" \o FmtInt(ns[3])
    ELSE FmtInt(ns[1]) \o "-" \o FmtInt(ns[2]) \o "-" \o FmtInt(ns[3]) \o "-" \o FmtInt(ns[4])

\* C8: a disk with a drive address and no alias gets
\* <bus><controller>-<bus>-<unit> when its bus is not SCSI or its SCSI
\* controller is of model lsilogic, and
\* <bus><controller>-<bus>-<target>-<unit> for any other model of its SCSI
\* controller.
C8_DriveDisk ==
    (Named /\ last.loop = "disks" /\ last.dev.type = "drive") =>
        LET a == last.dev.drive
        IN  last.alias =
                IF \/ last.dev.bus # "scsi"
                   \/ qemuDomainFindSCSIControllerModel(pre, last.dev) = "lsilogic"
                THEN last.dev.bus \o Dashed(<<a.controller, a.bus, a.unit>>)
                ELSE last.dev.bus \o Dashed(<<a.controller, a.bus, a.target, a.unit>>)

\* a SCSI disk on a controller that is not lsilogic, with a target above 0
C8_Witness ==
    /\ Named
    /\ last.loop = "disks"
    /\ last.dev.type = "drive"
    /\ last.dev.bus = "scsi"
    /\ last.dev.drive.target = MaxIdx
    /\ qemuDomainFindSCSIControllerModel(pre, last.dev) = "virtio-scsi"
    /\ last.alias = "scsi0-0-" \o FmtInt(MaxIdx) \o "-0"

-----------------------------------------------------------------------------
(* C9: a failure stops the pass and nothing is undone *)

\* C9: when qemuAssignDeviceAliases has returned -1, the device whose
\* assigner failed has no alias, every device the pass visited before it has
\* an alias (its own if it had one), and every device after it in the order
\* of the loops has the alias it had when the pass began.
C9_FailFast ==
    (Returned(-1) /\ last.how = "pass") =>
        /\ last.ret < 0
        /\ AliasAt(def, <<last.loop, last.i>>) = NULL
        /\ \A pos \in Positions(def) :
              IF pos = <<last.loop, last.i>> \/ PassedOver(def, pos) THEN TRUE
              ELSE IF Before(pos, last.loop, last.i)
              THEN /\ AliasAt(def, pos) # NULL
                   /\ AliasAt(def0, pos) # NULL => AliasAt(def, pos) = AliasAt(def0, pos)
              ELSE AliasAt(def, pos) = AliasAt(def0, pos)

\* the pass failed at a memory device after it had named an earlier device
C9_Witness ==
    /\ Returned(-1)
    /\ last.how = "pass"
    /\ last.loop = "mems"
    /\ \E pos \in Positions(def) :
          /\ Before(pos, last.loop, last.i)
          /\ AliasAt(def0, pos) = NULL
          /\ AliasAt(def, pos) # NULL

-----------------------------------------------------------------------------
(* C10: a disk without drive address *)

\* C10: for a disk without drive address and without alias,
\* qemuAssignDeviceDiskAlias fails and sets no alias when the target name
\* does not decode to an index, and gives <bus>-disk<index> when it does.
C10_DiskTarget ==
    (last.how = "pass" /\ last.loop = "disks" /\ last.dev.type # "drive"
        /\ LastAliasBefore = NULL) =>
        IF virDiskNameToIndex(last.dev.dst) < 0
        THEN last.ret < 0 /\ last.alias = NULL
        ELSE /\ last.ret = 0
             /\ last.alias = last.dev.bus \o "-disk" \o FmtInt(virDiskNameToIndex(last.dev.dst))

-----------------------------------------------------------------------------
(* C11: the index of a memory device alias *)

\* the last call named a memory device of one of the three models
MemoryNamed ==
    /\ Named
    /\ last.loop = "mems"
    /\ last.dev.model \in {"dimm", "nvdimm", "virtio-pmem"}

\* legacy mode (oldAlias) was requested in the last call
Legacy == last.idx = -1

-----------------------------------------------------------------------------
(* C12: qemuDomainDeviceAliasIndex *)

\* what follows the prefix in the alias of the call
Remainder == StrSkip(probe.alias, Len(probe.prefix))

HasPrefix == probe.alias # NULL /\ STRPREFIX(probe.alias, probe.prefix)

\* s is an optional sign and one or more digits
IsBase10Integer(s) ==
    /\ Len(Unsigned(s, First(s))) > 0
    /\ AllDigits(Unsigned(s, First(s)))

\* C12 as the specification states it: the call fails (a negative value
\* comes back) exactly when the alias is absent, does not start with the
\* prefix, or the remainder is not a base-10 integer.
C12_Original ==
    probe.pc = "returned" =>
        (probe.idx < 0 <=> ~(HasPrefix /\ IsBase10Integer(Remainder)))

\* C12: qemuDomainDeviceAliasIndex(info, prefix) yields no index (a negative
\* value) exactly when the alias is absent, does not start with prefix, or
\* the remainder after the prefix does not spell a base-10 integer from 0 to
\* INT_MAX; in every other case it yields that integer, and so a value it
\* yields as an index is never negative.  The info is left as it was.
C12_AliasIndex ==
    probe.pc = "returned" =>
        IF HasPrefix /\ \E k \in ProbeValues : Remainder \in Spellings(k)
        THEN probe.idx >= 0 /\ Remainder \in Spellings(probe.idx)
        ELSE probe.idx < 0

\* an alias whose remainder is a padded, signed number gave that number
C12_Witness ==
    /\ probe.pc = "returned"
    /\ probe.alias = "net+007"
    /\ probe.prefix = "net"
    /\ probe.idx = 7

-----------------------------------------------------------------------------
(* What the properties of virDomainBackupAlignDisks speak of *)

\* virDomainBackupAlignDisks has returned, with success
AlignSucceeded == bpc \in {"aligned", "realigned"}

\* virDomainBackupAlignDisks has returned, with an error
AlignFailed == bpc \in {"align-failed", "realign-failed"}

\* the directives the job had when virDomainBackupAlignDisks was called
Requested == Deref(preAlign).disks

\* the directives the job has now
Directives == Deref(backup).disks

\* the directive is enabled and its target is the file path
EnabledTo(bd, path) ==
    /\ bd.backup = VIR_TRISTATE_BOOL_YES
    /\ bd.store # NullPtr
    /\ Deref(bd.store).type = VIR_STORAGE_TYPE_FILE
    /\ Deref(bd.store).path = path

Disabled(bd) == bd.backup = VIR_TRISTATE_BOOL_NO

\* '<live disk path>.<suffix>'
DerivedPath(disk) == disk.src.path \o "." \o Suffix

-----------------------------------------------------------------------------
(* C13: an empty list of disks is backfilled *)

\* C13: after a successful virDomainBackupAlignDisks of a job without
\* directives the job holds one directive per disk of the domain, in the
\* order of the domain; the directive of a disk that is read-only or has no
\* media is disabled, every other directive is enabled with the file
\* <live disk path>.<suffix> as target.
C13_Backfill ==
    (AlignSucceeded /\ Requested = <<>>) =>
        /\ Len(Directives) = Len(dom)
        /\ \A i \in 1..Len(dom) :
              /\ Directives[i].name = dom[i].dst
              /\ IF dom[i].src.readonly \/ dom[i].src.path = NULL
                 THEN Disabled(Directives[i])
                 ELSE EnabledTo(Directives[i], DerivedPath(dom[i]))

\* a domain with a read-only image and a writable image, backfilled
C13_Witness ==
    /\ bpc = "aligned"
    /\ Requested = <<>>
    /\ Len(dom) = 2
    /\ dom[1].src.readonly /\ dom[1].src.path # NULL
    /\ Disabled(Directives[1])
    /\ EnabledTo(Directives[2], "/img/vdb.bak")

-----------------------------------------------------------------------------
(* C14: the disks a request leaves out *)

\* the positions of the directives that name the disk
DirectivesOf(name) == {i \in 1..Len(Directives) : Directives[i].name = name}

\* the disk names the request named
RequestedNameSet == {Requested[i].name : i \in 1..Len(Requested)}

\* C14: after a successful virDomainBackupAlignDisks of a job with
\* directives, the requested directives are still the first ones, in their
\* order; every directive after them is disabled and names a disk of the
\* domain the request left out; every disk of the domain is named by
\* exactly one directive, so there are as many directives as disks.
C14_Synthesized ==
    (AlignSucceeded /\ Requested # <<>>) =>
        /\ Len(Directives) = Len(dom)
        /\ \A i \in 1..Len(Requested) :
              /\ Directives[i].name = Requested[i].name
              /\ Directives[i].backup = Requested[i].backup
        /\ \A i \in (Len(Requested) + 1)..Len(Directives) :
              /\ Disabled(Directives[i])
              /\ Directives[i].name \notin RequestedNameSet
        /\ \A j \in 1..Len(dom) : Cardinality(DirectivesOf(dom[j].dst)) = 1

\* one disk of two requested: the other, a writable image, got a disabled
\* directive behind the requested one
C14_Witness ==
    /\ bpc = "aligned"
    /\ Len(Requested) = 1
    /\ Len(dom) = 2
    /\ Requested[1].name = "vda"
    /\ dom[2].src = FileSrc("/img/vdb", FALSE)
    /\ Directives[1].name = "vda"
    /\ Directives[2].name = "vdb"
    /\ Disabled(Directives[2])

-----------------------------------------------------------------------------
(* C15: what virDomainBackupAlignDisks refuses *)

\* virDomainBackupAlignDisks has been called and has returned
AlignReturned == AlignSucceeded \/ AlignFailed

NoSuchDisk(name) == \A j \in 1..Len(dom) : dom[j].dst # name

\* the request was one of: a domain without disks, a name that is no target
\* of a disk of the domain, a name given twice, backup mode incremental with
\* a checkpoint name neither in the directive nor in the job
Refusable ==
    \/ Len(dom) = 0
    \/ \E i \in 1..Len(Requested) : NoSuchDisk(Requested[i].name)
    \/ \E i, j \in 1..Len(Requested) : i # j /\ Requested[i].name = Requested[j].name
    \/ \E i \in 1..Len(Requested) :
          /\ Requested[i].backupmode = VIR_DOMAIN_BACKUP_DISK_BACKUP_MODE_INCREMENTAL
          /\ Requested[i].incremental = NULL
          /\ Deref(preAlign).incremental = NULL

\* C15: virDomainBackupAlignDisks returns an error when the domain has no
\* disks, when a requested name is no target of a disk of the domain, when a
\* name is requested twice, and when a requested directive has backup mode
\* incremental while neither it nor the job has a checkpoint name; the job
\* then has the directives it had, in their order, and no further ones.
C15_Refused ==
    (AlignReturned /\ Refusable) =>
        /\ alignRet < 0
        /\ AlignFailed
        /\ Len(Directives) = Len(Requested)
        /\ \A i \in 1..Len(Requested) : Directives[i].name = Requested[i].name

\* incremental without a checkpoint name, for the first of two disks: the
\* call failed and the second disk got no directive
C15_Witness ==
    /\ bpc = "align-failed"
    /\ Len(dom) = 2
    /\ Len(Requested) = 1
    /\ Requested[1].name = "vda"
    /\ Requested[1].backupmode = VIR_DOMAIN_BACKUP_DISK_BACKUP_MODE_INCREMENTAL
    /\ Requested[1].incremental = NULL
    /\ Deref(preAlign).incremental = NULL
    /\ dom[1].src = FileSrc("/img/vda", FALSE)
    /\ alignRet = -1
    /\ Len(Directives) = 1

-----------------------------------------------------------------------------
(* C16: the target of an enabled directive that names none *)

\* the directive came without a backing store to write to
NoTarget(bd) == bd.store = NullPtr \/ Deref(bd.store).path = NULL

\* the disk of the domain the directive names
LiveDisk(bd) == dom[virDomainDiskByTarget(dom, bd.name)]

\* directive i is enabled and was requested without target, or was backfilled
WithoutTarget(i) ==
    /\ Directives[i].backup = VIR_TRISTATE_BOOL_YES
    /\ i <= Len(Requested) => NoTarget(Requested[i])

\* C16: after a successful virDomainBackupAlignDisks every enabled directive
\* that came without a target, the requested ones parsed from a <disk>
\* without <target>/<scratch> child included, has the file
\* <live disk path>.<suffix> as target; and the call fails when the live
\* disk of such a requested directive is not of file type.
C16_DerivedTarget ==
    /\ AlignSucceeded =>
          \A i \in 1..Len(Directives) :
              WithoutTarget(i) =>
                  EnabledTo(Directives[i], DerivedPath(LiveDisk(Directives[i])))
    /\ AlignReturned =>
          \A i \in 1..Len(Requested) :
              (/\ Requested[i].backup = VIR_TRISTATE_BOOL_YES
               /\ NoTarget(Requested[i])
               /\ ~NoSuchDisk(Requested[i].name)
               /\ LiveDisk(Requested[i]).src.type # VIR_STORAGE_TYPE_FILE)
              => AlignFailed

-----------------------------------------------------------------------------
(* C17: the mode attribute *)

\* virDomainBackupDefParse has returned for the document xmlDoc
FirstParsed == bpc \in {"parsed", "rejected"}

\* the parse has returned a job of the mode with this name
ParsedAs(mode) ==
    /\ backup # NullPtr
    /\ virEnumToString(virDomainBackupTypes, Deref(backup).type) = mode

\* nothing but the mode can make the parse refuse the document
OnlyMode == xmlDoc.server = NullPtr /\ xmlDoc.disks = <<>>

\* C17 as the specification states it: the mode values default, push and
\* pull are accepted and give a job of that mode, every other value is
\* refused.
C17_Original ==
    FirstParsed =>
        /\ (OnlyMode /\ xmlDoc.mode \in {"default", "push", "pull"}) => ParsedAs(xmlDoc.mode)
        /\ (xmlDoc.mode # NULL /\ xmlDoc.mode \notin {"default", "push", "pull"})
              => backup = NullPtr

\* C17: parsing a backup descriptor accepts the mode values push and pull
\* and yields a job of that mode, yields a push job when there is no mode
\* attribute, and refuses every other value, default included.
C17_Mode ==
    FirstParsed =>
        /\ (OnlyMode /\ xmlDoc.mode \in {"push", "pull"}) => ParsedAs(xmlDoc.mode)
        /\ (OnlyMode /\ xmlDoc.mode = NULL) => ParsedAs("push")
        /\ (xmlDoc.mode # NULL /\ xmlDoc.mode \notin {"push", "pull"}) => backup = NullPtr
        /\ backup # NullPtr =>
              ParsedAs(IF xmlDoc.mode = NULL THEN "push" ELSE xmlDoc.mode)

\* a document with mode='pull' gave a pull job
C17_Witness ==
    /\ bpc = "parsed"
    /\ xmlDoc.mode = "pull"
    /\ OnlyMode
    /\ Deref(backup).type = VIR_DOMAIN_BACKUP_TYPE_PULL

-----------------------------------------------------------------------------
(* C18: the <server> element *)

HasServer == xmlDoc.server # NullPtr

\* C18: virDomainBackupDefParse returns no job for a document with a
\* <server> element whose mode is not pull, the mode attribute being absent
\* included, for a <server> with transport rdma, and for a <server> with
\* transport unix whose socket path does not start with '/'.
C18_Server ==
    (FirstParsed /\ HasServer) =>
        /\ xmlDoc.mode # "pull" => backup = NullPtr
        /\ Deref(xmlDoc.server).transport = "rdma" => backup = NullPtr
        /\ (/\ Deref(xmlDoc.server).transport = "unix"
            /\ Deref(xmlDoc.server).socket # NULL
            /\ ~STRPREFIX(Deref(xmlDoc.server).socket, "/")) => backup = NullPtr

\* a pull document without disks whose unix socket path is relative got no job
C18_Witness ==
    /\ bpc = "rejected"
    /\ xmlDoc.mode = "pull"
    /\ xmlDoc.disks = <<>>
    /\ HasServer
    /\ Deref(xmlDoc.server).transport = "unix"
    /\ Deref(xmlDoc.server).socket = "backup.sock"
    /\ Deref(xmlDoc.server).tls = NULL
    /\ backup = NullPtr

\* a pull document with an absolute unix socket path got a job with the server
C18_Accepted ==
    /\ bpc = "parsed"
    /\ xmlDoc.mode = "pull"
    /\ HasServer
    /\ Deref(xmlDoc.server).socket = "/run/backup.sock"
    /\ Deref(backup).server # NullPtr

-----------------------------------------------------------------------------
(* C19: parse, format, parse *)

\* the target of a directive: none, or the type and the path of its store
TargetOf(bd) ==
    IF bd.store = NullPtr THEN NullPtr
    ELSE Ptr([type |-> Deref(bd.store).type, path |-> Deref(bd.store).path])

\* what the round trip is to keep of a directive
DirectiveView(bd) ==
    [name |-> bd.name, backup |-> bd.backup, backupmode |-> bd.backupmode,
     incremental |-> bd.incremental, exportname |-> bd.exportname,
     exportbitmap |-> bd.exportbitmap, target |-> TargetOf(bd)]

\* what the round trip is to keep of a job
JobView(job) ==
    [type |-> job.type, incremental |-> job.incremental, server |-> job.server,
     tls |-> job.tls,
     disks |-> [i \in 1..Len(job.disks) |-> DirectiveView(job.disks[i])]]

\* the formatted document has been parsed, and aligned if the job had been
RoundTripDone ==
    \/ bpc = "reparsed" /\ ~aligned
    \/ bpc = "realigned"

\* C19: the document virDomainBackupDefFormat writes for a parsed job, or
\* for a parsed and aligned job, parses again, aligns again if the job had
\* been aligned, and the job this gives equals the formatted one in mode,
\* job-wide incremental name, server and, per disk, name, enabled state,
\* backup mode, incremental name, export name and bitmap, and target.
C19_RoundTrip ==
    /\ bpc \notin {"reparse-failed", "realign-failed"}
    /\ RoundTripDone => JobView(Deref(backup)) = JobView(Deref(first))

\* the same for documents that are not written in the internal format
C19_PublicRoundTrip ==
    ~flags =>
        /\ bpc \notin {"reparse-failed", "realign-failed"}
        /\ RoundTripDone => JobView(Deref(backup)) = JobView(Deref(first))

-----------------------------------------------------------------------------
(* C20: saving a host file is atomic for readers *)

\* the content the call is to leave at the target path
NewFile == FileOf(Contents(wjob.kind, wjob.hosts))

\* C20: while hostsfileWrite or addnhostsWrite runs, whatever a concurrent
\* reader of the target path reads is the complete previous content or the
\* complete new content, never a partially written file.
C20_AtomicSave ==
    reading.done => reading.file \in {oldFile, NewFile}

\* the reader has read the target while the writer had it open in place of
\* "<path>.new", with something to write over something to lose
C20_InPlace ==
    /\ reading.done
    /\ ~istmp
    /\ oldFile.exists /\ oldFile.data # ""
    /\ wjob.hosts # <<>>
    /\ reading.file = FileOf("")

\* with "<path>.new" open, the reader has read the target before the rename
C20_ViaTmp ==
    /\ reading.done
    /\ istmp
    /\ wpc = "rename"
    /\ reading.file = oldFile

-----------------------------------------------------------------------------
(* C21: the save without a temporary file *)

\* hostsfileWrite or addnhostsWrite has returned r
WriteReturned == wpc = "returned"

\* "<path>.new" could not be opened and the target could
Degraded ==
    /\ Len(calls) >= 2
    /\ calls[1] = [call |-> "fopen-tmp", ok |-> FALSE]
    /\ calls[2] = [call |-> "fopen-path", ok |-> TRUE]

Attempted(call) == \E k \in 1..Len(calls) : calls[k].call = call

\* a library call other than the fopen of "<path>.new" has failed
CallFailed == \E k \in 1..Len(calls) : calls[k].call # "fopen-tmp" /\ ~calls[k].ok

\* C21: when "<path>.new" cannot be opened and the target can, the entries
\* are written to the target itself, no rename is attempted, and the call
\* returns 0 with the whole new content in the target exactly when every
\* write and the close succeeded; it returns an error only when the target
\* cannot be opened either or a write or the close failed.
C21_Degraded ==
    /\ (WriteReturned /\ Degraded) =>
          /\ ~Attempted("rename")
          /\ files.tmp = NoFile
          /\ wrc = 0 <=> ~CallFailed
          /\ wrc = 0 => files.path = NewFile
    /\ (WriteReturned /\ wrc # 0) => CallFailed

\* the call has returned 0 after writing two entries into the target itself
C21_Witness ==
    /\ WriteReturned /\ Degraded
    /\ wrc = 0
    /\ Len(wjob.hosts) = 2
    /\ files.path = NewFile
    /\ oldFile.data # ""

\* the degraded call has returned an error
C21_Failed == WriteReturned /\ Degraded /\ wrc < 0

-----------------------------------------------------------------------------
(* C27: a failed save *)

\* C27: whenever hostsfileWrite or addnhostsWrite returns an error, the
\* target still holds its complete previous content and no "<path>.new" is
\* left behind.
C27_FailedSave ==
    (WriteReturned /\ wrc # 0) => (files.path = oldFile /\ ~files.tmp.exists)

\* VIR_FCLOSE failed on "<path>.new": the call returns the error and the
\* temporary file stays
C27_TmpLeft ==
    /\ WriteReturned /\ wrc # 0
    /\ istmp
    /\ calls[Len(calls)] = [call |-> "fclose", ok |-> FALSE]
    /\ files.tmp.exists
    /\ files.path = oldFile

\* a write failed after the target itself had been opened: the call returns
\* the error and the previous content is gone
C27_TargetLost ==
    /\ WriteReturned /\ wrc # 0
    /\ Degraded
    /\ oldFile.exists /\ oldFile.data # ""
    /\ files.path # oldFile

\* what does hold on the path through "<path>.new": after a failed write or
\* rename the target has its previous content and the temporary file is gone
C27_TmpPath ==
    (WriteReturned /\ wrc # 0 /\ istmp /\ calls[Len(calls)].call # "fclose")
        => (files.path = oldFile /\ ~files.tmp.exists)

-----------------------------------------------------------------------------
(* C22: the qomName of a disk *)

\* the last assigner call was qemuAssignDeviceDiskAlias
DiskCalled == last.loop = "disks"

\* the disk of that call as it is now (no other assigner touches a disk)
DiskAfter == def.disks[last.i]

\* C22: with QEMU_CAPS_BLOCKDEV, qemuAssignDeviceDiskAlias gives a disk
\* whose qomName is unset the qomName that belongs to its alias and bus: the
\* alias itself for fdc, ide, sata and scsi,
\* /machine/peripheral/<alias>/virtio-backend for virtio and
\* /machine/peripheral/<alias>/<alias>.0/legacy[0] for usb, whether the alias
\* was preset or has just been generated; without the capability the qomName
\* stays unset; and a qomName that is set is changed by no step.
C22_QomName ==
    /\ DiskCalled =>
          /\ last.dev.qomName # NULL => DiskAfter.qomName = last.dev.qomName
          /\ (last.dev.qomName = NULL /\ ~qemuCaps.blockdev) => DiskAfter.qomName = NULL
          /\ (last.dev.qomName = NULL /\ qemuCaps.blockdev) =>
                /\ DiskAfter.bus \in {"fdc", "ide", "sata", "scsi"} =>
                      DiskAfter.qomName = DiskAfter.alias
                /\ (DiskAfter.bus = "virtio" /\ last.ret = 0) =>
                      DiskAfter.qomName =
                         "/machine/peripheral/" \o DiskAfter.alias \o "/virtio-backend"
                /\ (DiskAfter.bus = "usb" /\ last.ret = 0) =>
                      DiskAfter.qomName =
                         "/machine/peripheral/" \o DiskAfter.alias \o "/"
                            \o DiskAfter.alias \o ".0/legacy[0]"
    /\ [][\A i \in 1..Len(def.disks) :
             def.disks[i].qomName # NULL => def'.disks[i].qomName = def.disks[i].qomName]_vars

\* a second pass has come to the disk that arrived with a qomName of its own
\* and has left that qomName alone, under QEMU_CAPS_BLOCKDEV
C22_Witness ==
    /\ DiskCalled /\ rerun
    /\ qemuCaps.blockdev
    /\ last.dev.qomName = PresetQomName
    /\ DiskAfter.qomName = PresetQomName
    /\ DiskAfter.alias = "virtio-disk1"

\* a usb disk without alias has got both, under QEMU_CAPS_BLOCKDEV
C22_Usb ==
    /\ DiskCalled /\ qemuCaps.blockdev
    /\ last.dev.alias = NULL /\ last.dev.bus = "usb"
    /\ DiskAfter.alias # NULL
    /\ DiskAfter.qomName = "/machine/peripheral/" \o DiskAfter.alias \o "/"
                              \o DiskAfter.alias \o ".0/legacy[0]"

\* a disk with a preset alias has got the qomName of that alias
C22_PresetAlias ==
    /\ DiskCalled /\ qemuCaps.blockdev
    /\ last.dev.alias = "virtio-disk0" /\ last.dev.qomName = NULL
    /\ DiskAfter.qomName = "/machine/peripheral/virtio-disk0/virtio-backend"

\* without the capability the disk has got its alias and no qomName
C22_NoBlockdev ==
    /\ DiskCalled /\ ~qemuCaps.blockdev
    /\ last.dev.alias = NULL /\ last.ret = 0
    /\ DiskAfter.alias # NULL /\ DiskAfter.qomName = NULL

-----------------------------------------------------------------------------
(* C23: the names of the controllers that are not PCI controllers *)

\* the last assigner call was on a controller other than a PCI controller
\* that had no alias
PlainControllerNamed ==
    /\ last.loop = "controllers"
    /\ last.dev.alias = NULL
    /\ last.dev.type # "pci"

\* the controller is one of the four that are built into the machine
Integrated(d, c) ==
    /\ c.idx = 0
    /\ \/ c.type = "ide" /\ qemuDomainHasBuiltinIDE(d)
       \/ c.type = "sata" /\ qemuDomainIsQ35(d)
       \/ c.type = "usb"
       \/ c.type = "scsi" /\ c.model = "ncr53c90"

\* C23: a controller without alias that is not a PCI controller is named
\* "ide" when it is the IDE controller 0 of a domain with a builtin IDE
\* controller or the SATA controller 0 of a Q35 machine, "usb" when it is
\* the USB controller 0, "scsi" when it is the SCSI controller 0 of model
\* NCR53C90, and <type><idx> with its own index in every other case.
C23_PlainController ==
    PlainControllerNamed =>
        /\ last.ret = 0
        /\ def.controllers[last.i].alias = last.alias
        /\ (last.dev.type = "ide" /\ last.dev.idx = 0 /\ qemuDomainHasBuiltinIDE(pre))
              => last.alias = "ide"
        /\ (last.dev.type = "sata" /\ last.dev.idx = 0 /\ qemuDomainIsQ35(pre))
              => last.alias = "ide"
        /\ (last.dev.type = "usb" /\ last.dev.idx = 0) => last.alias = "usb"
        /\ (last.dev.type = "scsi" /\ last.dev.idx = 0 /\ last.dev.model = "ncr53c90")
              => last.alias = "scsi"
        /\ ~Integrated(pre, last.dev)
              => last.alias = last.dev.type \o FmtInt(last.dev.idx)

\* a USB controller with another index than 0 has been named by its index
C23_Witness ==
    /\ PlainControllerNamed
    /\ last.dev.type = "usb" /\ last.dev.idx = MaxIdx
    /\ last.alias = "usb" \o FmtInt(MaxIdx)

\* the SATA controller 0 of a Q35 machine has been named ide
C23_SataQ35 ==
    PlainControllerNamed /\ last.dev.type = "sata" /\ qemuDomainIsQ35(pre)
        /\ last.alias = "ide"

\* the IDE controller 0 of a machine without builtin IDE has been named ide0
C23_IdeQ35 ==
    PlainControllerNamed /\ last.dev.type = "ide" /\ ~qemuDomainHasBuiltinIDE(pre)
        /\ last.alias = "ide0"

\* a SCSI controller 0 of another model than NCR53C90 has been named scsi0
C23_Scsi0 ==
    PlainControllerNamed /\ last.dev.type = "scsi" /\ last.dev.model = "lsilogic"
        /\ last.alias = "scsi0"

-----------------------------------------------------------------------------
(* C24: redirdev, shmem and input devices: the caller's index, or a scan *)

\* the last assigner call named a redirdev, shmem or input device
ExplicitOrScavenged == Named /\ last.loop \in {"redirdevs", "shmems", "inputs"}

\* the alias is <prefix><n> for an index n that is not negative
NonNegativeSuffix(alias, prefix) ==
    \E n \in 0..(MaxSuffix + 1) : alias = prefix \o FmtInt(n)

\* C24: qemuAssignDeviceRedirdevAlias, qemuAssignDeviceShmemAlias and
\* qemuAssignDeviceInputAlias use the caller's index as it is when it is not
\* -1; called with -1 they give <prefix><N> for a scanned N that is never
\* negative and that is 0 whenever no device of the list carries an alias
\* <prefix><k>, the empty list included.
C24_ExplicitOrScavenge ==
    ExplicitOrScavenged =>
        /\ last.idx # -1 => last.alias = ScanPrefix \o FmtInt(last.idx)
        /\ last.idx = -1 =>
              /\ NonNegativeSuffix(last.alias, ScanPrefix)
              /\ UsedIdx(pre[last.loop], {ScanPrefix}) = {}
                    => last.alias = ScanPrefix \o "0"

\* qemuAssignDeviceInputAlias(def, input, -1) on a domain without input
\* devices has named the new device input-1
C24_InputMinusOne ==
    /\ ExplicitOrScavenged /\ last.loop = "inputs" /\ last.idx = -1
    /\ pre.inputs = <<>>
    /\ last.alias = "input-1"

\* what holds: the statement for redirdev and shmem devices, and for input
\* devices when the list is not empty
C24_ButEmptyInputs ==
    (ExplicitOrScavenged /\ ~(last.loop = "inputs" /\ pre.inputs = <<>>)) =>
        /\ last.idx # -1 => last.alias = ScanPrefix \o FmtInt(last.idx)
        /\ last.idx = -1 =>
              /\ NonNegativeSuffix(last.alias, ScanPrefix)
              /\ UsedIdx(pre[last.loop], {ScanPrefix}) = {}
                    => last.alias = ScanPrefix \o "0"

\* a shmem device has been named shmem0 by a scan of the empty list
C24_ShmemEmpty ==
    /\ ExplicitOrScavenged /\ last.loop = "shmems" /\ last.idx = -1
    /\ pre.shmems = <<>>
    /\ last.alias = "shmem0"

-----------------------------------------------------------------------------
(* C25: the index of a character device, scanned with a second prefix *)

\* the last call was qemuAssignDeviceChrAlias with index -1 on a device
\* without alias
ChrScanned == Scanning /\ last.loop \in ChrLoops

\* the infos of the list whose alias is <p><k> for one of the prefixes
Matching(infos, prefixes) ==
    SelectSeq(infos, LAMBDA x : \E p \in prefixes, k \in 0..MaxSuffix :
                                   x.alias = p \o FmtInt(k))

C25_AboveSerial ==
    /\ ChrScanned
    /\ last.loop = "consoles"
    /\ UsedIdx(pre.consoles, {"serial"}) # {}
    /\ last.alias = "console" \o FmtInt(Largest(UsedIdx(pre.consoles, {"serial"})) + 1)

\* a serial device has been named by a scan of the serial devices
C25_Serial ==
    /\ ChrScanned
    /\ last.loop = "serials"
    /\ UsedIdx(pre.serials, {"serial"}) # {}

-----------------------------------------------------------------------------
(* C26: the backup mode of every directive after the alignment *)

\* the directive as the call found it: a requested one as it was, a
\* synthesized one as VIR_EXPAND_N made it
DirectiveBefore(i) == IF i <= Len(Requested) THEN Requested[i] ELSE ZeroBackupDisk

\* the job or the directive carried an incremental checkpoint name
CarriesIncremental(i) ==
    Deref(preAlign).incremental # NULL \/ DirectiveBefore(i).incremental # NULL

\* what the claim says of the mode of directive i
ModeBackfilled(i) ==
    /\ Directives[i].backupmode # VIR_DOMAIN_BACKUP_DISK_BACKUP_MODE_DEFAULT
    /\ DirectiveBefore(i).backupmode = VIR_DOMAIN_BACKUP_DISK_BACKUP_MODE_DEFAULT =>
          Directives[i].backupmode =
             IF CarriesIncremental(i) THEN VIR_DOMAIN_BACKUP_DISK_BACKUP_MODE_INCREMENTAL
             ELSE VIR_DOMAIN_BACKUP_DISK_BACKUP_MODE_FULL
    /\ DirectiveBefore(i).backupmode # VIR_DOMAIN_BACKUP_DISK_BACKUP_MODE_DEFAULT =>
          Directives[i].backupmode = DirectiveBefore(i).backupmode

\* what the claim says of the incremental name of directive i
IncrementalNamed(i) ==
    Directives[i].backupmode = VIR_DOMAIN_BACKUP_DISK_BACKUP_MODE_INCREMENTAL =>
        /\ Directives[i].incremental =
              IF DirectiveBefore(i).incremental # NULL THEN DirectiveBefore(i).incremental
              ELSE Deref(preAlign).incremental
        /\ Directives[i].incremental # NULL
        /\ Directives[i].incremental # ""

\* C26: after a successful virDomainBackupAlignDisks no directive is left
\* in the default backup mode; a directive whose mode was unset is
\* incremental exactly when the job or the directive carries an incremental
\* checkpoint name, and full otherwise; a mode that was set is unchanged;
\* and every directive in incremental mode has a non-empty incremental
\* name, its own or else the job's.
C26_BackupMode ==
    AlignSucceeded =>
        \A i \in 1..Len(Directives) : ModeBackfilled(i) /\ IncrementalNamed(i)

\* a directive that came with incremental='' has been made incremental and
\* has kept the empty name
C26_EmptyName ==
    /\ AlignSucceeded
    /\ \E i \in 1..Len(Directives) :
          /\ DirectiveBefore(i).incremental = ""
          /\ Directives[i].backupmode = VIR_DOMAIN_BACKUP_DISK_BACKUP_MODE_INCREMENTAL
          /\ Directives[i].incremental = ""

\* what holds: the claim with "set" (not NULL) in place of "non-empty"
C26_NameSet ==
    AlignSucceeded =>
        \A i \in 1..Len(Directives) :
            /\ ModeBackfilled(i)
            /\ Directives[i].backupmode = VIR_DOMAIN_BACKUP_DISK_BACKUP_MODE_INCREMENTAL =>
                  /\ Directives[i].incremental # NULL
                  /\ Directives[i].incremental =
                        IF DirectiveBefore(i).incremental # NULL
                        THEN DirectiveBefore(i).incremental
                        ELSE Deref(preAlign).incremental

\* a synthesized directive has been made incremental with the job's name
C26_Synthesized ==
    /\ AlignSucceeded
    /\ Len(Directives) > Len(Requested)
    /\ Directives[Len(Directives)].backupmode = VIR_DOMAIN_BACKUP_DISK_BACKUP_MODE_INCREMENTAL
    /\ Directives[Len(Directives)].incremental = "cp1"

-----------------------------------------------------------------------------
(* C28: what dnsmasqDelete returns *)

DeleteReturned == dpc = "returned"

\* C28: dnsmasqDelete attempts both removals whatever the first one gives,
\* returns a failure whenever one of the two removals failed, and returns
\* success only if each file was absent or has been removed.
C28_Delete ==
    DeleteReturned =>
        /\ unlinks.hostsfile # "none" /\ unlinks.addnhostsfile # "none"
        /\ ("failed" \in {unlinks.hostsfile, unlinks.addnhostsfile}) => dret < 0
        /\ dret = 0 => (~ctxFiles.hostsfile.exists /\ ~ctxFiles.addnhostsfile.exists)

\* the hosts file could not be removed, the addnhosts file was removed, and
\* dnsmasqDelete has returned 0 with the hosts file still there
C28_FirstErrorLost ==
    /\ DeleteReturned
    /\ unlinks.hostsfile = "failed"
    /\ unlinks.addnhostsfile = "removed"
    /\ dret = 0
    /\ ctxFiles.hostsfile.exists

\* what holds: both removals are attempted, and the value returned is the
\* outcome of the second one
C28_SecondOnly ==
    DeleteReturned =>
        /\ unlinks.hostsfile # "none" /\ unlinks.addnhostsfile # "none"
        /\ dret < 0 <=> unlinks.addnhostsfile = "failed"
        /\ dret = 0 => ~ctxFiles.addnhostsfile.exists

-----------------------------------------------------------------------------
(* C29: when dnsmasqCapsRefresh probes the binary again *)

\* dnsmasqCapsRefresh has just returned, and the object existed before
RefreshedExisting == cpc = "returned" /\ lastRefresh.existing

\* the version and options cached are not the ones the binary prints
Stale ==
    \/ ~binary.exists \/ ~binary.executable \/ ~binary.runs \/ ~binary.out.parses
    \/ Deref(dcaps).version # binary.out.version
    \/ Deref(dcaps).flags # binary.out.flags

C29_NoProbe ==
    /\ RefreshedExisting
    /\ binary.mtime # lastRefresh.okMtime
    /\ ~lastRefresh.probed
    /\ capsRet = 0
    /\ binary.runs /\ binary.executable /\ binary.out.parses
    /\ Deref(dcaps).version # binary.out.version

\* every object that dnsmasqCapsRefresh leaves behind has noRefresh set
C29_NeverRefreshable == dcaps # NullPtr => Deref(dcaps).noRefresh

\* an object with noRefresh clear has its mtime set before the probe: when
\* the probe of the binary on disk fails, the next call with the binary
\* unchanged returns 0 without running it
FailedThenSkipped(c) ==
    /\ dnsmasqCapsRefreshInternal(c, FALSE, binary).ret < 0
    /\ ~dnsmasqCapsRefreshInternal(c, FALSE, binary).caps.noRefresh
    /\ dnsmasqCapsRefreshInternal(
           dnsmasqCapsRefreshInternal(c, FALSE, binary).caps, FALSE, binary).ret = 0
    /\ ~dnsmasqCapsRefreshInternal(
           dnsmasqCapsRefreshInternal(c, FALSE, binary).caps, FALSE, binary).probed

C29_MtimeFirst == binary.exists /\ FailedThenSkipped(dnsmasqCapsNewEmpty)

-----------------------------------------------------------------------------
(* C30: what virXMLNodeSanitizeNamespaces leaves *)

\* the namespace URI of a child of the original list, NULL when it has none
UriOf(c) == IF c.ns = NullPtr THEN NullPtr ELSE Deref(c.ns).href

\* the first child carrying each namespace URI of the list, in order
FirstOfEachUri(l) ==
    SelectSeq(l, LAMBDA c :
        /\ UriOf(c) # NullPtr
        /\ \A j \in 1..Len(l) : l[j].id < c.id => UriOf(l[j]) # UriOf(c))

Sanitized == xpc = "done" /\ xnode # NullPtr

\* C30: virXMLNodeSanitizeNamespaces(node) terminates for every child list,
\* and leaves node with exactly the first original child of each distinct
\* namespace URI, in original order: children without a namespace and
\* later children sharing a namespace with an earlier one are removed.
C30_Sanitize ==
    /\ [](Sanitized => Deref(xnode) = FirstOfEachUri(Deref(xorig)))
    /\ <>(xpc = "done")

\* the function has returned after removing a child without a namespace
\* and a later duplicate, keeping the one first child of the namespace
C30_Witness ==
    /\ Sanitized
    /\ Len(Deref(xnode)) = 1
    /\ Len(Deref(xorig)) = MaxChildren
    /\ \E i, j \in 1..Len(Deref(xorig)) :
          /\ i < j
          /\ UriOf(Deref(xorig)[i]) # NullPtr
          /\ UriOf(Deref(xorig)[i]) = UriOf(Deref(xorig)[j])
    /\ \E i \in 1..Len(Deref(xorig)) : UriOf(Deref(xorig)[i]) = NullPtr

\* a child whose namespace has no href is removed, and is no duplicate of
\* a child with a URI before it
C30_NullHref ==
    /\ Sanitized
    /\ \E i \in 1..Len(Deref(xorig)) :
          /\ Deref(xorig)[i].ns # NullPtr
          /\ Deref(Deref(xorig)[i].ns).href = NullPtr
    /\ Len(Deref(xnode)) = 2

====
